---------------------------- MODULE Spec2Model ----------------------------
(***************************************************************************)
(* A model of the regexp crate: the parser (parse.rs), the compiler        *)
(* (compile.rs), the Pike VM (vm.rs) and the public surface (re.rs).       *)
(*                                                                         *)
(* Characters are Unicode codepoints (integers).  A pattern is a sequence  *)
(* of codepoints (the parser works on Vec<char>); a search text is kept as *)
(* its UTF-8 byte sequence, because every offset of the VM and of the      *)
(* surface is a byte index.                                                *)
(***************************************************************************)
EXTENDS Integers, Sequences, FiniteSets

(***************************************************************************)
(* Characters and UTF-8                                                    *)
(***************************************************************************)

\* Readable names for the codepoints used in patterns and texts.
CharTable ==
    { <<"a", 97>>, <<"b", 98>>, <<"c", 99>>, <<"d", 100>>, <<"e", 101>>,
      <<"f", 102>>, <<"g", 103>>, <<"h", 104>>, <<"i", 105>>, <<"j", 106>>,
      <<"k", 107>>, <<"l", 108>>, <<"m", 109>>, <<"n", 110>>, <<"o", 111>>,
      <<"p", 112>>, <<"q", 113>>, <<"r", 114>>, <<"s", 115>>, <<"t", 116>>,
      <<"u", 117>>, <<"v", 118>>, <<"w", 119>>, <<"x", 120>>, <<"y", 121>>,
      <<"z", 122>>, <<"A", 65>>, <<"B", 66>>, <<"C", 67>>, <<"D", 68>>,
      <<"E", 69>>, <<"F", 70>>, <<"G", 71>>, <<"H", 72>>, <<"I", 73>>,
      <<"J", 74>>, <<"K", 75>>, <<"L", 76>>, <<"M", 77>>, <<"N", 78>>,
      <<"O", 79>>, <<"P", 80>>, <<"Q", 81>>, <<"R", 82>>, <<"S", 83>>,
      <<"T", 84>>, <<"U", 85>>, <<"V", 86>>, <<"W", 87>>, <<"X", 88>>,
      <<"Y", 89>>, <<"Z", 90>>, <<"0", 48>>, <<"1", 49>>, <<"2", 50>>,
      <<"3", 51>>, <<"4", 52>>, <<"5", 53>>, <<"6", 54>>, <<"7", 55>>,
      <<"8", 56>>, <<"9", 57>>, <<"\\", 92>>, <<".", 46>>, <<"+", 43>>,
      <<"*", 42>>, <<"?", 63>>, <<"(", 40>>, <<")", 41>>, <<"|", 124>>,
      <<"[", 91>>, <<"]", 93>>, <<"{", 123>>, <<"}", 125>>, <<"^", 94>>,
      <<"$", 36>>, <<"-", 45>>, <<":", 58>>, <<",", 44>>, <<"<", 60>>,
      <<">", 62>>, <<"_", 95>>, <<" ", 32>>, <<"!", 33>>, <<"=", 61>>,
      <<"#", 35>>, <<"LF", 10>>, <<"TAB", 9>>, <<"e'", 233>>,
      <<"E'", 201>> }

Chr(s) == (CHOOSE p \in CharTable : p[1] = s)[2]

\* A string literal, written as a tuple of names, as its codepoints.
Str(names) == [i \in 1..Len(names) |-> Chr(names[i])]

\* Option::None for characters and offsets.
None == -1

Max(a, b) == IF a >= b THEN a ELSE b
Min(a, b) == IF a <= b THEN a ELSE b

RECURSIVE FlatMap(_, _)
FlatMap(f(_), s) == IF s = <<>> THEN <<>> ELSE f(Head(s)) \o FlatMap(f, Tail(s))

\* With(v, F): F of the value v, which F names once.
With(v, F(_)) == F(v)

\* The UTF-8 encoding of one codepoint (1 to 4 bytes).
Utf8Char(c) ==
    IF c < 128 THEN <<c>>
    ELSE IF c < 2048 THEN <<192 + (c \div 64), 128 + (c % 64)>>
    ELSE IF c < 65536
         THEN <<224 + (c \div 4096), 128 + ((c \div 64) % 64), 128 + (c % 64)>>
         ELSE <<240 + (c \div 262144), 128 + ((c \div 4096) % 64),
                128 + ((c \div 64) % 64), 128 + (c % 64)>>

\* The bytes of a str holding the given codepoints.
Utf8(cs) == FlatMap(Utf8Char, cs)

\* std::str UTF8_CHAR_WIDTH: the width announced by a first byte, 0 for a
\* continuation byte (or an invalid first byte).
Utf8Width(b) ==
    IF b < 128 THEN 1
    ELSE IF b < 194 THEN 0
    ELSE IF b < 224 THEN 2
    ELSE IF b < 240 THEN 3
    ELSE IF b < 245 THEN 4 ELSE 0

\* i is a codepoint boundary of the byte string bs (str::is_char_boundary).
IsCharBoundary(bs, i) ==
    \/ i = 0
    \/ i = Len(bs)
    \/ i > 0 /\ i < Len(bs) /\ (bs[i + 1] < 128 \/ bs[i + 1] >= 192)

\* The codepoint encoded by the w bytes of bs that start at byte index i.
DecodeAt(bs, i, w) ==
    IF w = 1 THEN bs[i + 1]
    ELSE IF w = 2 THEN (bs[i + 1] - 192) * 64 + (bs[i + 2] - 128)
    ELSE IF w = 3 THEN (bs[i + 1] - 224) * 4096 + (bs[i + 2] - 128) * 64
                       + (bs[i + 3] - 128)
    ELSE (bs[i + 1] - 240) * 262144 + (bs[i + 2] - 128) * 4096
         + (bs[i + 3] - 128) * 64 + (bs[i + 4] - 128)

\* str::char_range_at(i): the codepoint that starts at byte i and the index
\* after it.  The call fails (assert!(w != 0)) when i is not the first byte
\* of a codepoint.
char_range_at(bs, i) ==
    LET w == Utf8Width(bs[i + 1]) IN
    IF w = 0 THEN [fail |-> TRUE, ch |-> None, next |-> i]
    ELSE [fail |-> FALSE, ch |-> DecodeAt(bs, i, w), next |-> i + w]

\* str::char_range_at_reverse(start): the codepoint that holds byte
\* start-1.  It walks back over continuation bytes to a first byte.
RECURSIVE LeadIndex(_, _)
LeadIndex(bs, i) ==
    IF i > 0 /\ bs[i + 1] >= 128 /\ bs[i + 1] < 192
    THEN LeadIndex(bs, i - 1) ELSE i

char_range_at_reverse(bs, start) ==
    LET prev == IF start > 0 THEN start - 1 ELSE 0
        i    == LeadIndex(bs, prev)
        w    == Utf8Width(bs[i + 1])
    IN  IF w = 0 THEN [fail |-> TRUE, ch |-> None, next |-> i]
        ELSE [fail |-> FALSE, ch |-> DecodeAt(bs, i, w), next |-> i]

\* char::to_uppercase, on the codepoints of the model: ASCII letters and
\* the Latin-1 pair U+00E9 / U+00C9.
to_uppercase(c) ==
    IF c >= 97 /\ c <= 122 THEN c - 32
    ELSE IF c = 233 THEN 201 ELSE c

to_lowercase(c) ==
    IF c >= 65 /\ c <= 90 THEN c + 32
    ELSE IF c = 201 THEN 233 ELSE c

is_uppercase(c) == (c >= 65 /\ c <= 90) \/ c = 201


(***************************************************************************)
(* Flags and the abstract syntax (parse.rs; the flag bits as compile.rs    *)
(* and vm.rs read them)                                                    *)
(***************************************************************************)

FLAG_EMPTY == 0
FLAG_NOCASE == 1
FLAG_MULTI == 2
FLAG_DOTNL == 4
FLAG_SWAP_GREED == 8
FLAG_NEGATED == 16

\* flags & f > 0, for a single-bit f.
is_set(flags, f) == (flags \div f) % 2 = 1
\* flags | f, for a single-bit f.
bitor(flags, f) == IF is_set(flags, f) THEN flags ELSE flags + f
\* flags ^ flags2 over the five flag bits.
bitxor(flags, flags2) ==
    LET bit(f) == IF is_set(flags, f) # is_set(flags2, f) THEN f ELSE 0
    IN  bit(1) + bit(2) + bit(4) + bit(8) + bit(16)

\* The flag byte of an AST node built from the parser's booleans.
FlagIf(b, f) == IF b THEN f ELSE FLAG_EMPTY

Nothing == [k |-> "Nothing"]
Literal(c, casei) == [k |-> "Literal", c |-> c, flags |-> FlagIf(casei, FLAG_NOCASE)]
Dot(dotnl) == [k |-> "Dot", flags |-> FlagIf(dotnl, FLAG_DOTNL)]
Class(ranges, negated, casei) ==
    [k |-> "Class", ranges |-> ranges,
     flags |-> FlagIf(negated, FLAG_NEGATED) + FlagIf(casei, FLAG_NOCASE)]
Begin(multi) == [k |-> "Begin", flags |-> FlagIf(multi, FLAG_MULTI)]
End(multi) == [k |-> "End", flags |-> FlagIf(multi, FLAG_MULTI)]
\* WordBoundary(true) is \b, WordBoundary(false) is \B (negated).
WordBoundary(yes) == [k |-> "WordBoundary", flags |-> FlagIf(~yes, FLAG_NEGATED)]
Capture(cap, name, x) == [k |-> "Capture", cap |-> cap, name |-> name, x |-> x]
Cat(x, y) == [k |-> "Cat", xs |-> <<x, y>>]
Alt(x, y) == [k |-> "Alt", x |-> x, y |-> y]
Rep(x, rep, greed) == [k |-> "Rep", x |-> x, rep |-> rep, greed |-> greed]

\* Greed::swap
swap(greed, swapped) ==
    IF ~swapped THEN greed
    ELSE IF greed = "Greedy" THEN "Ungreedy" ELSE "Greedy"

\* Repeater::from_str, for one character.
from_char(c) ==
    IF c = Chr("?") THEN "ZeroOne"
    ELSE IF c = Chr("*") THEN "ZeroMore"
    ELSE IF c = Chr("+") THEN "OneMore" ELSE "None"

is_punct(c) ==
    c \in { Chr("\\"), Chr("."), Chr("+"), Chr("*"), Chr("?"), Chr("("),
            Chr(")"), Chr("|"), Chr("["), Chr("]"), Chr("{"), Chr("}"),
            Chr("^"), Chr("$") }

is_valid_cap(c) ==
    \/ c = Chr("_")
    \/ c >= 48 /\ c <= 57
    \/ c >= 97 /\ c <= 122
    \/ c >= 65 /\ c <= 90

(***************************************************************************)
(* Character class tables and range merging (parse.rs)                     *)
(***************************************************************************)

PERL_CLASSES ==
    << [name |-> Str(<<"d">>), ranges |-> << <<48, 57>> >>],
       [name |-> Str(<<"s">>),
        ranges |-> << <<9, 9>>, <<10, 10>>, <<12, 12>>, <<13, 13>>, <<32, 32>> >>],
       [name |-> Str(<<"w">>),
        ranges |-> << <<48, 57>>, <<65, 90>>, <<97, 122>>, <<95, 95>> >>] >>

\* Ordering of two strings (sequences of codepoints): -1, 0 or 1.
RECURSIVE StrCmp(_, _)
StrCmp(s, t) ==
    IF s = <<>> /\ t = <<>> THEN 0
    ELSE IF s = <<>> THEN -1
    ELSE IF t = <<>> THEN 1
    ELSE IF Head(s) < Head(t) THEN -1
    ELSE IF Head(s) > Head(t) THEN 1
    ELSE StrCmp(Tail(s), Tail(t))

\* slice::bsearch: cmp(x) orders the element x against the target (-1 the
\* element is less, 0 equal, 1 greater).  The index found (0-based) or None.
RECURSIVE BSearchFrom(_, _, _, _)
BSearchFrom(xs, cmp(_), base, lim) ==
    IF lim = 0 THEN None
    ELSE LET ix == base + (lim \div 2)
             o  == cmp(xs[ix + 1])
         IN  IF o = 0 THEN ix
             ELSE IF o < 0 THEN BSearchFrom(xs, cmp, ix + 1, (lim - 1) \div 2)
             ELSE BSearchFrom(xs, cmp, base, lim \div 2)

bsearch(xs, cmp(_)) == BSearchFrom(xs, cmp, 0, Len(xs))

\* find_class: the ranges of the named class, or <<>> (no class of the
\* tables is empty) when unknown.
find_class(classes, name) ==
    LET cmp(e) == StrCmp(e.name, name)
        i == bsearch(classes, cmp)
    IN  IF i = None THEN <<>> ELSE classes[i + 1].ranges

should_merge(r1, r2) == Max(r1[1], r2[1]) <= Min(r1[2], r2[2]) + 1

\* Insertion of one range into a list sorted by (lo, hi).
RECURSIVE InsertSorted(_, _)
InsertSorted(r, xs) ==
    IF xs = <<>> THEN <<r>>
    ELSE IF r[1] < Head(xs)[1] \/ (r[1] = Head(xs)[1] /\ r[2] <= Head(xs)[2])
         THEN <<r>> \o xs
         ELSE <<Head(xs)>> \o InsertSorted(r, Tail(xs))

RECURSIVE SortRanges(_)
SortRanges(xs) ==
    IF xs = <<>> THEN <<>> ELSE InsertSorted(Head(xs), SortRanges(Tail(xs)))

\* The index (1-based) of the first range of ordered that r should merge
\* with, 0 when there is none.
RECURSIVE FirstMerge(_, _, _)
FirstMerge(r, ordered, i) ==
    IF i > Len(ordered) THEN 0
    ELSE IF should_merge(r, ordered[i]) THEN i
    ELSE FirstMerge(r, ordered, i + 1)

RECURSIVE CombineInto(_, _)
CombineInto(unordered, ordered) ==
    IF unordered = <<>> THEN ordered
    ELSE LET u == Head(unordered)
             i == FirstMerge(u, ordered, 1)
         IN  IF i = 0
             THEN CombineInto(Tail(unordered), Append(ordered, u))
             ELSE CombineInto(Tail(unordered),
                    [ordered EXCEPT ![i] = <<Min(u[1], ordered[i][1]),
                                             Max(u[2], ordered[i][2])>>])

combine_ranges(unordered) == SortRanges(CombineInto(unordered, <<>>))

(***************************************************************************)
(* The parser (parse.rs).  A parser state is the record                    *)
(*   [chars, chari, stack, flags, caps, err, ret]:                         *)
(* the fields of struct Parser, plus err ("" while no error was raised,    *)
(* else "BadSyntax", "Bug", or "Abort" for a failed unwrap, assertion or   *)
(* index) and ret, the value the last operation returned.                  *)
(***************************************************************************)

AstItem(ast) == [t |-> "Ast", ast |-> ast]
Paren(flags, cap, name) == [t |-> "Paren", flags |-> flags, cap |-> cap, name |-> name]
Bar == [t |-> "Bar"]

NoAst == [k |-> "None"]

err(ps, kind) == [ps EXCEPT !.err = kind]
synerr(ps) == err(ps, "BadSyntax")
ret(ps, v) == [ps EXCEPT !.ret = v]

\* try!: F of the state p, unless p holds an error.
Then(p, F(_)) == IF p.err # "" THEN p ELSE F(p)

next_char(ps) == [ps EXCEPT !.chari = @ + 1]

peek(ps, offset) ==
    IF ps.chari + offset >= Len(ps.chars) THEN None
    ELSE ps.chars[ps.chari + offset + 1]

peek_is(ps, offset, is) == peek(ps, offset) = is

\* self.cur() indexes the pattern: the call fails past its end.
cur_ok(ps) == ps.chari < Len(ps.chars)
cur(ps) == ps.chars[ps.chari + 1]

\* Iterator::position: the least of the positions found, or None.
Position(found) ==
    IF found = {} THEN None ELSE CHOOSE i \in found : \A j \in found : i <= j

\* The position of the first c at or after chari, or None.
pos(ps, c) == Position({i \in ps.chari..(Len(ps.chars) - 1) : ps.chars[i + 1] = c})

slice(ps, start, end) == SubSeq(ps.chars, start + 1, end)

push(ps, ast) == [ps EXCEPT !.stack = Append(@, AstItem(ast))]

\* self.stack.pop().unwrap().unwrap(): fails on an empty stack, a Bug error
\* when the item popped is no AST.
pop_ast(ps) ==
    IF ps.stack = <<>> THEN err(ps, "Abort")
    ELSE LET top == ps.stack[Len(ps.stack)]
             ps1 == [ps EXCEPT !.stack = SubSeq(@, 1, Len(@) - 1)]
         IN  IF top.t = "Ast" THEN ret(ps1, top.ast) ELSE err(ps1, "Bug")

get_next_greedy(ps) ==
    LET sw == is_set(ps.flags, FLAG_SWAP_GREED) IN
    IF peek_is(ps, 1, Chr("?"))
    THEN ret(next_char(ps), swap("Ungreedy", sw))
    ELSE ret(ps, swap("Greedy", sw))

push_repeater(ps, c) ==
    IF Len(ps.stack) = 0 THEN synerr(ps)
    ELSE IF from_char(c) = "None" THEN err(ps, "Bug")
    ELSE IF peek(ps, 1) \in {Chr("*"), Chr("+")} THEN synerr(ps)
    ELSE Then(pop_ast(ps), LAMBDA p1 :
         With(get_next_greedy(p1), LAMBDA p2 :
              push(p2, Rep(p1.ret, from_char(c), p2.ret))))

push_literal(ps, c) ==
    CASE c = Chr(".") -> push(ps, Dot(is_set(ps.flags, FLAG_DOTNL)))
      [] c = Chr("^") -> push(ps, Begin(is_set(ps.flags, FLAG_MULTI)))
      [] c = Chr("$") -> push(ps, End(is_set(ps.flags, FLAG_MULTI)))
      [] OTHER -> push(ps, Literal(c, is_set(ps.flags, FLAG_NOCASE)))

\* The position, counted from the top, of the last stack item satisfying
\* pred, or None.
RevPosition(stack, pred(_)) ==
    Position({i \in 0..(Len(stack) - 1) : pred(stack[Len(stack) - i])})

pos_last(ps, allow_start, pred(_)) ==
    With(RevPosition(ps.stack, pred), LAMBDA p :
        IF p = None
        THEN IF allow_start THEN ret(ps, 0) ELSE synerr(ps)
        ELSE ret(ps, Len(ps.stack) - p))

\* The constructor build_from folds with: Cat or Alt.
Mk(mk, x, y) == IF mk = "Cat" THEN Cat(x, y) ELSE Alt(x, y)

\* One iteration of the loop of build_from: pops the top item, combining
\* it with mk when it is an AST and dropping it when it is a marker.  b is
\* [stack, ast], the stack and the AST combined so far.
BuildStep(b, mk) ==
    [stack |-> SubSeq(b.stack, 1, Len(b.stack) - 1),
     ast   |-> IF b.stack[Len(b.stack)].t = "Ast"
               THEN Mk(mk, b.stack[Len(b.stack)].ast, b.ast)
               ELSE b.ast]

\* The loop of build_from: pops the items above index from.
RECURSIVE BuildLoop(_, _, _)
BuildLoop(b, from, mk) ==
    IF Len(b.stack) <= from THEN b ELSE BuildLoop(BuildStep(b, mk), from, mk)

build_from(ps, from, mk) ==
    IF from >= Len(ps.stack) THEN synerr(ps)
    ELSE Then(pop_ast(ps), LAMBDA p1 :
         With(BuildLoop([stack |-> p1.stack, ast |-> p1.ret], from, mk), LAMBDA r :
              ret([p1 EXCEPT !.stack = r.stack], r.ast)))

concat(ps, from) ==
    Then(build_from(ps, from, "Cat"), LAMBDA p1 : push(p1, p1.ret))

alternate(ps, from) ==
    Then(build_from(ps, IF from > 0 THEN from - 1 ELSE from, "Alt"),
         LAMBDA p1 : push(p1, p1.ret))

\* The value of a digit in the given radix, or None.
DigitVal(c, radix) ==
    LET v == IF c >= 48 /\ c <= 57 THEN c - 48
             ELSE IF c >= 97 /\ c <= 122 THEN c - 97 + 10
             ELSE IF c >= 65 /\ c <= 90 THEN c - 65 + 10 ELSE radix
    IN  IF v < radix THEN v ELSE None

\* num::from_str_radix::<u32> / from_str::<uint>: None for an empty string,
\* a character that is no digit, or a value that does not fit.  Every value
\* above IntLimit is treated as not fitting: the callers treat such a value
\* as they treat an overflow (it is above MAX_REPEAT, above the largest
\* codepoint and above every group index).
IntLimit == 2147483647

RECURSIVE FromDigits(_, _, _)
FromDigits(s, radix, acc) ==
    IF s = <<>> THEN acc
    ELSE LET d == DigitVal(Head(s), radix) IN
         IF d = None \/ acc > (IntLimit - d) \div radix THEN None
         ELSE FromDigits(Tail(s), radix, acc * radix + d)

from_str_radix(s, radix) == IF s = <<>> THEN None ELSE FromDigits(s, radix, 0)

parse_uint(ps, s) ==
    LET n == from_str_radix(s, 10) IN
    IF n = None THEN synerr(ps) ELSE ret(ps, n)

\* char::from_u32 accepts every scalar value: no surrogate, at most 10FFFF.
char_from_u32(ps, n) ==
    IF n > 1114111 \/ (n >= 55296 /\ n <= 57343) THEN synerr(ps) ELSE ret(ps, n)

IsOctalDigit(c) == c >= 48 /\ c <= 55

parse_octal(ps) ==
    LET start == ps.chari
        n2 == IsOctalDigit(peek(ps, 1))
        n3 == n2 /\ IsOctalDigit(peek(ps, 2))
        end == start + 1 + (IF n2 THEN 1 ELSE 0) + (IF n3 THEN 1 ELSE 0)
    IN  With([ps EXCEPT !.chari = end - 1], LAMBDA p1 :
        With(from_str_radix(slice(p1, start, end), 8), LAMBDA n :
            IF n = None THEN synerr(p1)
            ELSE Then(char_from_u32(p1, n),
                      LAMBDA p2 : ret(p2, Literal(p2.ret, FALSE)))))

parse_hex_digits(ps, s) ==
    With(from_str_radix(s, 16), LAMBDA n :
        IF n = None THEN synerr(ps)
        ELSE Then(char_from_u32(ps, n),
                  LAMBDA p2 : ret(p2, Literal(p2.ret, FALSE))))

parse_hex_two(ps) ==
    LET start == ps.chari
        end   == ps.chari + 2
    IN  IF end > Len(ps.chars) THEN synerr(ps)
        ELSE parse_hex_digits(next_char(ps), slice(ps, start, end))

parse_hex(ps) ==
    IF ~peek_is(ps, 1, Chr("{")) THEN parse_hex_two(next_char(ps))
    ELSE LET start  == ps.chari + 2
             closer == pos(ps, Chr("}"))
         IN  IF closer = None THEN synerr(ps)
             ELSE parse_hex_digits([ps EXCEPT !.chari = closer],
                                   slice(ps, start, closer))

\* The match of parse_escape on the character c after the backslash.  (\p and \P read the
\* Unicode tables of the unicode module, which are not modelled: such a
\* pattern is outside the model and is reported as "Unmodelled".)
EscapeChar(ps, c) ==
    CASE is_punct(c) -> ret(ps, Literal(c, FALSE))
      [] c = Chr("a") -> ret(ps, Literal(7, FALSE))
      [] c = Chr("f") -> ret(ps, Literal(12, FALSE))
      [] c = Chr("t") -> ret(ps, Literal(9, FALSE))
      [] c = Chr("n") -> ret(ps, Literal(10, FALSE))
      [] c = Chr("r") -> ret(ps, Literal(13, FALSE))
      [] c = Chr("v") -> ret(ps, Literal(11, FALSE))
      [] c = Chr("A") -> ret(ps, Begin(FALSE))
      [] c = Chr("z") -> ret(ps, End(FALSE))
      [] c = Chr("b") -> ret(ps, WordBoundary(TRUE))
      [] c = Chr("B") -> ret(ps, WordBoundary(FALSE))
      [] IsOctalDigit(c) -> parse_octal(ps)
      [] c = Chr("x") -> parse_hex(ps)
      [] c \in {Chr("p"), Chr("P")} -> err(ps, "Unmodelled")
      [] c \in {Chr("d"), Chr("D"), Chr("s"), Chr("S"), Chr("w"), Chr("W")} ->
            With(find_class(PERL_CLASSES, <<to_lowercase(c)>>), LAMBDA ranges :
                IF ranges = <<>> THEN err(ps, "Bug")
                ELSE ret(ps, Class(combine_ranges(ranges), is_uppercase(c),
                                   is_set(ps.flags, FLAG_NOCASE))))
      [] OTHER -> synerr(ps)

\* Parses all escape sequences; chari is at the backslash.
parse_escape(ps0) ==
    IF ~cur_ok(next_char(ps0)) THEN err(next_char(ps0), "Abort")
    ELSE EscapeChar(next_char(ps0), cur(next_char(ps0)))

ASCII_CLASSES ==
    << [name |-> Str(<<"a","l","n","u","m">>),
        ranges |-> << <<48, 57>>, <<65, 90>>, <<97, 122>> >>],
       [name |-> Str(<<"a","l","p","h","a">>),
        ranges |-> << <<65, 90>>, <<97, 122>> >>],
       [name |-> Str(<<"a","s","c","i","i">>), ranges |-> << <<0, 127>> >>],
       [name |-> Str(<<"b","l","a","n","k">>),
        ranges |-> << <<32, 32>>, <<9, 9>> >>],
       [name |-> Str(<<"c","n","t","r","l">>),
        ranges |-> << <<0, 31>>, <<127, 127>> >>],
       [name |-> Str(<<"d","i","g","i","t">>), ranges |-> << <<48, 57>> >>],
       [name |-> Str(<<"g","r","a","p","h">>), ranges |-> << <<33, 126>> >>],
       [name |-> Str(<<"l","o","w","e","r">>), ranges |-> << <<97, 122>> >>],
       [name |-> Str(<<"p","r","i","n","t">>), ranges |-> << <<32, 126>> >>],
       [name |-> Str(<<"p","u","n","c","t">>),
        ranges |-> << <<33, 47>>, <<58, 64>>, <<91, 96>>, <<123, 126>> >>],
       [name |-> Str(<<"s","p","a","c","e">>),
        ranges |-> << <<9, 9>>, <<10, 10>>, <<11, 11>>, <<12, 12>>,
                      <<13, 13>>, <<32, 32>> >>],
       [name |-> Str(<<"u","p","p","e","r">>), ranges |-> << <<65, 90>> >>],
       [name |-> Str(<<"w","o","r","d">>),
        ranges |-> << <<48, 57>>, <<65, 90>>, <<97, 122>>, <<95, 95>> >>],
       [name |-> Str(<<"x","d","i","g","i","t">>),
        ranges |-> << <<48, 57>>, <<65, 70>>, <<97, 102>> >>] >>

\* Tries to parse [:name:] at '['.  ret is the class, or NoAst with the
\* state unchanged.
try_parse_ascii(ps) ==
    LET closer == pos(ps, Chr("]")) IN
    IF ~peek_is(ps, 1, Chr(":")) THEN ret(ps, NoAst)
    ELSE IF closer = None THEN ret(ps, NoAst)
    ELSE IF ps.chars[closer] # Chr(":") THEN ret(ps, NoAst)
    ELSE IF closer - ps.chari <= 3 THEN ret(ps, NoAst)
    ELSE LET negated    == peek_is(ps, 2, Chr("^"))
             name_start == ps.chari + 2 + (IF negated THEN 1 ELSE 0)
             name       == slice(ps, name_start, closer - 1)
             ranges     == find_class(ASCII_CLASSES, name)
         IN  IF ranges = <<>> THEN ret(ps, NoAst)
             ELSE ret([ps EXCEPT !.chari = closer],
                      Class(combine_ranges(ranges), negated,
                            is_set(ps.flags, FLAG_NOCASE)))

\* The Class a nested class contributes to a bracketed class: its negation
\* is XORed with the negation of the enclosing class.
NestedClass(ast, negated) ==
    [k |-> "Class", ranges |-> ast.ranges,
     flags |-> FlagIf(is_set(ast.flags, FLAG_NEGATED) # negated, FLAG_NEGATED)
               + FlagIf(is_set(ast.flags, FLAG_NOCASE), FLAG_NOCASE)]

\* ast = Alt(alt, ast) for every alt, in order.
RECURSIVE FoldAlts(_, _)
FoldAlts(alts, ast) ==
    IF alts = <<>> THEN ast ELSE FoldAlts(Tail(alts), Alt(Head(alts), ast))

\* The second match of the loop of parse_class, on the character c.
ClassChar(ps, c, negated, ranges, alts) ==
    IF c = Chr("]")
    THEN LET ast == IF Len(ranges) > 0
                    THEN Class(combine_ranges(ranges), negated,
                               is_set(ps.flags, FLAG_NOCASE))
                    ELSE Nothing
         IN  [ps |-> push(ps, FoldAlts(alts, ast)), done |-> TRUE,
              ranges |-> ranges]
    ELSE IF peek_is(ps, 1, Chr("-")) /\ ~peek_is(ps, 2, Chr("]"))
    THEN LET p2 == next_char(next_char(ps)) IN
         IF ~cur_ok(p2)
         THEN [ps |-> err(p2, "Abort"), done |-> TRUE, ranges |-> ranges]
         ELSE IF cur(p2) < c
         THEN [ps |-> synerr(p2), done |-> TRUE, ranges |-> ranges]
         ELSE [ps |-> p2, done |-> FALSE, ranges |-> Append(ranges, <<c, cur(p2)>>)]
    ELSE [ps |-> ps, done |-> FALSE, ranges |-> Append(ranges, <<c, c>>)]

\* The while loop of parse_class.
RECURSIVE ClassLoop(_, _, _, _)
ClassLoop(ps, negated, ranges, alts) ==
    IF ps.chari >= Len(ps.chars) THEN synerr(ps)
    ELSE
    LET c == cur(ps)
        after(p, ch) ==
            With(ClassChar(p, ch, negated, ranges, alts), LAMBDA r :
                IF r.done THEN r.ps
                ELSE ClassLoop(next_char(r.ps), negated, r.ranges, alts))
    IN  IF c = Chr("[")
        THEN With(try_parse_ascii(ps), LAMBDA asc :
                 IF asc.ret = NoAst THEN after(ps, c)
                 ELSE IF asc.ret.k = "Class"
                 THEN ClassLoop(next_char(asc), negated, ranges,
                                Append(alts, NestedClass(asc.ret, negated)))
                 ELSE err(asc, "Bug"))
        ELSE IF c = Chr("\\")
        THEN Then(parse_escape(ps), LAMBDA esc :
                 IF esc.ret.k = "Class"
                 THEN ClassLoop(next_char(esc), negated, ranges,
                                Append(alts, NestedClass(esc.ret, negated)))
                 ELSE IF esc.ret.k = "Literal" THEN after(esc, esc.ret.c)
                 ELSE IF esc.ret.k \in {"Begin", "End", "WordBoundary"}
                 THEN synerr(esc)
                 ELSE err(esc, "Bug"))
        ELSE after(ps, c)

\* The leading '-'s of a class: each is the range ('-', '-').
RECURSIVE ClassDashes(_, _)
ClassDashes(ps, ranges) ==
    IF peek_is(ps, 1, Chr("-"))
    THEN ClassDashes(next_char(ps), Append(ranges, <<Chr("-"), Chr("-")>>))
    ELSE [ps |-> ps, ranges |-> ranges]

\* Parses all forms of character classes; chari is at '['.
parse_class(ps) ==
    With(peek_is(ps, 1, Chr("^")), LAMBDA negated :
    With(ClassDashes(IF negated THEN next_char(ps) ELSE ps, <<>>), LAMBDA d :
        IF peek_is(d.ps, 1, Chr("]"))
        THEN ClassLoop(next_char(next_char(d.ps)), negated,
                       Append(d.ranges, <<Chr("]"), Chr("]")>>), <<>>)
        ELSE ClassLoop(next_char(d.ps), negated, d.ranges, <<>>)))

MAX_REPEAT == 1000

\* ast pushed n times.
PushCopies(ps, ast, n) ==
    [ps EXCEPT !.stack = @ \o [i \in 1..n |-> AstItem(ast)]]

\* A faulty variant of WithinRepeat, which the bounds of the counted
\* repetitions are tested against: a max of MAX_REPEAT is refused.
WithinRepeatBelow(min, max) ==
    /\ min <= MAX_REPEAT
    /\ max # None => (max < MAX_REPEAT /\ max >= min)

\* The bounds checking of parse_counted: neither bound exceeds MAX_REPEAT
\* and max, when there is one, is not smaller than min.
WithinRepeat(min, max) ==
    /\ ~(min > MAX_REPEAT)
    /\ max # None => (~(max > MAX_REPEAT) /\ ~(max < min))

\* The index (1-based) of the first c in s, 0 when there is none.
IndexOf(s, c) ==
    With(Position({i \in 1..Len(s) : s[i] = c}), LAMBDA i : IF i = None THEN 0 ELSE i)

\* Parses counted repetition; chari is at '{'.
parse_counted(ps) ==
    With(pos(ps, Chr("}")), LAMBDA closer :
    IF closer = None THEN synerr(ps)
    ELSE
    With(get_next_greedy([ps EXCEPT !.chari = closer]), LAMBDA p1 :
    With(slice(ps, ps.chari + 1, closer), LAMBDA inner :
    With(IndexOf(inner, Chr(",")), LAMBDA comma :
    With(IF comma = 0 THEN inner ELSE SubSeq(inner, 1, comma - 1), LAMBDA smin :
    With(IF comma = 0 THEN inner ELSE SubSeq(inner, comma + 1, Len(inner)),
         LAMBDA smax :
    IF comma # 0 /\ Len(smin) = 0 THEN synerr(p1)
    ELSE
    Then(parse_uint(p1, smin), LAMBDA pmin :
    \* max: None for the open form {n,}
    Then(IF comma # 0 /\ Len(smax) = 0 THEN ret(p1, None) ELSE parse_uint(p1, smax),
         LAMBDA pmax :
    LET greed == p1.ret
        min   == pmin.ret
        max   == pmax.ret
    IN
    IF ~WithinRepeat(min, max) THEN synerr(p1)
    ELSE
    Then(pop_ast(p1), LAMBDA p2 :
    With(PushCopies(p2, p2.ret, min), LAMBDA p3 :
        IF min > 0 /\ max = None
        THEN push(p3, Rep(p2.ret, "ZeroMore", greed))
        ELSE With(IF max # None
                  THEN PushCopies(p3, Rep(p2.ret, "ZeroOne", greed), max - min)
                  ELSE p3,
                  LAMBDA p4 :
                 IF min = 0 /\ (max = None \/ max = 0)
                 THEN push(p4, Nothing) ELSE p4)))))))))))

\* Parses a named capture; '(?' has been read and 'P<' follows.
parse_named_capture(ps0) ==
    LET ps     == [ps0 EXCEPT !.chari = @ + 2]
        closer == pos(ps, Chr(">"))
        name   == slice(ps, ps.chari, closer)
    IN  IF closer = None THEN synerr(ps)
        ELSE IF closer - ps.chari = 0 THEN synerr(ps)
        ELSE IF \E i \in 1..Len(name) : ~is_valid_cap(name[i]) THEN synerr(ps)
        ELSE [ps EXCEPT !.chari = closer, !.caps = @ + 1,
                        !.stack = Append(@, Paren(ps.flags, ps.caps + 1, name))]

\* The while loop of parse_group_opts.
RECURSIVE GroupOptsLoop(_, _, _, _)
GroupOptsLoop(ps, flags, sign, saw_flag) ==
    IF ps.chari >= Len(ps.chars) THEN synerr(ps)
    ELSE
    LET c == cur(ps) IN
    IF c = Chr("i")
    THEN GroupOptsLoop(next_char(ps), bitor(flags, FLAG_NOCASE), sign, TRUE)
    ELSE IF c = Chr("m")
    THEN GroupOptsLoop(next_char(ps), bitor(flags, FLAG_MULTI), sign, TRUE)
    ELSE IF c = Chr("s")
    THEN GroupOptsLoop(next_char(ps), bitor(flags, FLAG_DOTNL), sign, TRUE)
    ELSE IF c = Chr("U")
    THEN GroupOptsLoop(next_char(ps), bitor(flags, FLAG_SWAP_GREED), sign, TRUE)
    ELSE IF c = Chr("-")
    THEN IF sign < 0 THEN synerr(ps)
         ELSE GroupOptsLoop(next_char(ps), bitxor(flags, flags), -1, FALSE)
    ELSE IF c \in {Chr(":"), Chr(")")}
    THEN IF sign < 0 /\ ~saw_flag THEN synerr(ps)
         ELSE LET f  == IF sign < 0 THEN bitxor(flags, flags) ELSE flags
                  p1 == IF c = Chr(":")
                        THEN [ps EXCEPT !.stack = Append(@, Paren(ps.flags, 0, <<>>))]
                        ELSE ps
              IN  [p1 EXCEPT !.flags = f]
    ELSE synerr(ps)

\* Parses non-capture groups and options; '(?' has been read.
parse_group_opts(ps) ==
    IF ~cur_ok(ps) THEN err(ps, "Abort")
    ELSE IF cur(ps) = Chr("P") /\ peek_is(ps, 1, Chr("<"))
    THEN parse_named_capture(ps)
    ELSE GroupOptsLoop(ps, ps.flags, 1, FALSE)

IsParen(x) == x.t = "Paren"
IsBar(x) == x.t = "Bar"
IsParenOrBar(x) == x.t \in {"Paren", "Bar"}

\* A faulty variant of the ')' arm, which the scoping of flags is tested
\* against: the flags recorded with the opening parenthesis are not put back.
CloseParenKeepFlags(ps) ==
    Then(pos_last(ps, FALSE, IsParenOrBar), LAMBDA c1 :
    Then(concat(c1, c1.ret), LAMBDA c2 :
    Then(pos_last(c2, FALSE, IsParen), LAMBDA a1 :
    Then(alternate(a1, a1.ret), LAMBDA a2 :
    With(a1.stack[a1.ret], LAMBDA paren :
        IF paren.cap # 0
        THEN Then(pop_ast(a2), LAMBDA a4 :
                 push(a4, Capture(paren.cap,
                                  IF Len(paren.name) = 0 THEN <<>> ELSE paren.name,
                                  a4.ret)))
        ELSE a2)))))

\* The ')' arm of the loop of parse.
CloseParen(ps) ==
    Then(pos_last(ps, FALSE, IsParenOrBar), LAMBDA c1 :
    Then(concat(c1, c1.ret), LAMBDA c2 :
    Then(pos_last(c2, FALSE, IsParen), LAMBDA a1 :
    Then(alternate(a1, a1.ret), LAMBDA a2 :
    With(a1.stack[a1.ret], LAMBDA paren :
        IF paren.cap # 0
        THEN Then(pop_ast([a2 EXCEPT !.flags = paren.flags]), LAMBDA a4 :
                 push(a4, Capture(paren.cap,
                                  IF Len(paren.name) = 0 THEN <<>> ELSE paren.name,
                                  a4.ret)))
        ELSE [a2 EXCEPT !.flags = paren.flags])))))

\* The match on the current character in the loop of parse.
ParseChar(ps) ==
    CASE cur(ps) \in {Chr("?"), Chr("*"), Chr("+")} -> push_repeater(ps, cur(ps))
      [] cur(ps) = Chr("\\") ->
            Then(parse_escape(ps), LAMBDA e : push(e, e.ret))
      [] cur(ps) = Chr("{") -> parse_counted(ps)
      [] cur(ps) = Chr("[") ->
            With(try_parse_ascii(ps), LAMBDA a :
                IF a.ret = NoAst THEN parse_class(ps) ELSE push(a, a.ret))
      [] cur(ps) = Chr("(") ->
            IF peek_is(ps, 1, Chr("?"))
            THEN parse_group_opts(next_char(next_char(ps)))
            ELSE [ps EXCEPT !.caps = @ + 1,
                            !.stack = Append(@, Paren(ps.flags, ps.caps + 1, <<>>))]
      [] cur(ps) = Chr(")") -> CloseParen(ps)
      [] cur(ps) = Chr("|") ->
            Then(pos_last(ps, TRUE, IsParenOrBar), LAMBDA c1 :
            Then(concat(c1, c1.ret), LAMBDA c2 :
                 [c2 EXCEPT !.stack = Append(@, Bar)]))
      [] OTHER -> push_literal(ps, cur(ps))

\* One iteration of the loop of parse: the match, then next_char.
ParseStep(ps) == Then(ParseChar(ps), next_char)

\* The loop of parse: it ends at the end of the pattern, or on an error.
RECURSIVE ParseLoop(_)
ParseLoop(ps) ==
    IF ps.err # "" \/ ps.chari >= Len(ps.chars) THEN ps
    ELSE ParseLoop(ParseStep(ps))

\* Parser::parse: ret is the AST when err = "".
Parser_parse(ps0) ==
    Then(ParseLoop(ps0), LAMBDA ps :
    IF \E i \in 1..Len(ps.stack) : IsParen(ps.stack[i]) THEN synerr(ps)
    ELSE Then(pos_last(ps, TRUE, IsBar), LAMBDA c1 :
         Then(concat(c1, c1.ret), LAMBDA c2 :
         Then(alternate(c2, 0), LAMBDA a :
              IF Len(a.stack) # 1 THEN err(a, "Abort") ELSE pop_ast(a)))))

\* parse::parse(s)
parse(s) ==
    Parser_parse([chars |-> s, chari |-> 0, stack |-> <<>>,
                  flags |-> FLAG_EMPTY, caps |-> 0, err |-> "", ret |-> NoAst])

(***************************************************************************)
(* The compiler (compile.rs).  insts is a sequence; the instruction at     *)
(* program counter pc is insts[pc + 1].                                    *)
(***************************************************************************)

Match == [op |-> "Match"]
OneChar(c, flags) == [op |-> "OneChar", c |-> c, flags |-> flags]
CharClass(ranges, flags) == [op |-> "CharClass", ranges |-> ranges, flags |-> flags]
Any(flags) == [op |-> "Any", flags |-> flags]
EmptyBegin(flags) == [op |-> "EmptyBegin", flags |-> flags]
EmptyEnd(flags) == [op |-> "EmptyEnd", flags |-> flags]
EmptyWordBoundary(flags) == [op |-> "EmptyWordBoundary", flags |-> flags]
\* Faulty variants of Save, which the capture properties are tested
\* against: the Save that opens a group writes the slot of the one that
\* closes it; the two slots of a group are exchanged.
SaveClosingOnly(slot) ==
    [op |-> "Save", slot |-> IF slot > 1 /\ slot % 2 = 0 THEN slot + 1 ELSE slot]

SaveExchanged(slot) ==
    [op   |-> "Save",
     slot |-> IF slot <= 1 THEN slot ELSE IF slot % 2 = 0 THEN slot + 1 ELSE slot - 1]

Save(slot) == [op |-> "Save", slot |-> slot]
Jump(to) == [op |-> "Jump", to |-> to]
Split(x, y) == [op |-> "Split", x |-> x, y |-> y]

\* A compiler state is [insts, names, bug]; bug records a fail!("BUG: ...").
Compiler_push(c, x) == [c EXCEPT !.insts = Append(@, x)]

empty_split(c) == Compiler_push(c, Split(0, 0))
empty_jump(c) == Compiler_push(c, Jump(0))

\* A faulty variant of set_split, which the duality of greediness is tested
\* against: the second target repeats the first.
set_splitFirstOnly(c, i, pc1, pc2) ==
    IF c.insts[i + 1].op = "Split"
    THEN [c EXCEPT !.insts[i + 1] = Split(pc1, pc1)]
    ELSE [c EXCEPT !.bug = TRUE]

set_split(c, i, pc1, pc2) ==
    IF c.insts[i + 1].op = "Split"
    THEN [c EXCEPT !.insts[i + 1] = Split(pc1, pc2)]
    ELSE [c EXCEPT !.bug = TRUE]

\* A faulty variant of set_jump, which the patching of jumps is tested
\* against: the placeholder target is left as it was pushed.
set_jumpUnpatched(c, i, pc) ==
    IF c.insts[i + 1].op = "Jump"
    THEN c
    ELSE [c EXCEPT !.bug = TRUE]

set_jump(c, i, pc) ==
    IF c.insts[i + 1].op = "Jump"
    THEN [c EXCEPT !.insts[i + 1] = Jump(pc)]
    ELSE [c EXCEPT !.bug = TRUE]

\* A faulty variant of is_greedy, which the layout of the Splits is tested
\* against: every repetition is taken as greedy.
is_greedyAlways(g) == TRUE

is_greedy(g) == g = "Greedy"

\* names.grow(10 + cap - len, &None) when cap >= len, then names[cap] = name.
SetName(names, cap, name) ==
    LET len == Len(names)
        grown == IF cap >= len
                 THEN names \o [i \in 1..(10 + cap - len) |-> <<>>]
                 ELSE names
    IN  [grown EXCEPT ![cap + 1] = name]

\* Compiler::compile: the compiler state after compiling ast.  A Cat holds
\* its two children, compiled in order.
RECURSIVE compile(_, _)
compile(c, ast) ==
    CASE ast.k = "Nothing" -> c
      [] ast.k = "Literal" -> Compiler_push(c, OneChar(ast.c, ast.flags))
      [] ast.k = "Dot" -> Compiler_push(c, Any(ast.flags))
      [] ast.k = "Class" -> Compiler_push(c, CharClass(ast.ranges, ast.flags))
      [] ast.k = "Begin" -> Compiler_push(c, EmptyBegin(ast.flags))
      [] ast.k = "End" -> Compiler_push(c, EmptyEnd(ast.flags))
      [] ast.k = "WordBoundary" -> Compiler_push(c, EmptyWordBoundary(ast.flags))
      [] ast.k = "Capture" ->
            Compiler_push(
                compile(Compiler_push([c EXCEPT !.names = SetName(@, ast.cap, ast.name)],
                                      Save(2 * ast.cap)),
                        ast.x),
                Save(2 * ast.cap + 1))
      [] ast.k = "Cat" -> compile(compile(c, ast.xs[1]), ast.xs[2])
      [] ast.k = "Alt" ->
            With(Len(c.insts), LAMBDA split :
            With(compile(empty_split(c), ast.x), LAMBDA c2 :
            With(compile(empty_jump(c2), ast.y), LAMBDA c4 :
                 \* j1 = split + 1, jmp = Len(c2.insts), j2 = jmp + 1, j3 = Len(c4.insts)
                 set_jump(set_split(c4, split, split + 1, Len(c2.insts) + 1),
                          Len(c2.insts), Len(c4.insts)))))
      [] ast.k = "Rep" /\ ast.rep = "ZeroOne" ->
            With(Len(c.insts), LAMBDA split :
            With(compile(empty_split(c), ast.x), LAMBDA c2 :
                 \* j1 = split + 1, j2 = Len(c2.insts)
                 IF is_greedy(ast.greed)
                 THEN set_split(c2, split, split + 1, Len(c2.insts))
                 ELSE set_split(c2, split, Len(c2.insts), split + 1)))
      [] ast.k = "Rep" /\ ast.rep = "ZeroMore" ->
            With(Len(c.insts), LAMBDA j1 :
            With(compile(empty_split(c), ast.x), LAMBDA c2 :
            With(set_jump(empty_jump(c2), Len(c2.insts), j1), LAMBDA c4 :
                 \* j2 = j1 + 1, jmp = Len(c2.insts), j3 = jmp + 1
                 IF is_greedy(ast.greed)
                 THEN set_split(c4, j1, j1 + 1, Len(c2.insts) + 1)
                 ELSE set_split(c4, j1, Len(c2.insts) + 1, j1 + 1))))
      [] ast.k = "Rep" /\ ast.rep = "OneMore" ->
            With(Len(c.insts), LAMBDA j1 :
            With(compile(c, ast.x), LAMBDA c1 :
                 \* split = Len(c1.insts), j2 = split + 1
                 IF is_greedy(ast.greed)
                 THEN set_split(empty_split(c1), Len(c1.insts), j1, Len(c1.insts) + 1)
                 ELSE set_split(empty_split(c1), Len(c1.insts), Len(c1.insts) + 1, j1)))

\* A faulty variant of PrefixFrom, which the prefix property is tested
\* against: the walk does not stop at the first other instruction.
RECURSIVE PrefixFromEveryChar(_, _)
PrefixFromEveryChar(insts, i) ==
    IF i >= Len(insts) THEN <<>>
    ELSE LET inst == insts[i + 1] IN
         IF inst.op = "OneChar" /\ inst.flags = FLAG_EMPTY
         THEN <<inst.c>> \o PrefixFromEveryChar(insts, i + 1)
         ELSE PrefixFromEveryChar(insts, i + 1)

\* The literal prefix: the characters of the OneChar instructions without
\* flags that follow Save(0).
RECURSIVE PrefixFrom(_, _)
PrefixFrom(insts, i) ==
    IF i >= Len(insts) THEN <<>>
    ELSE LET inst == insts[i + 1] IN
         IF inst.op = "OneChar" /\ inst.flags = FLAG_EMPTY
         THEN <<inst.c>> \o PrefixFrom(insts, i + 1)
         ELSE <<>>

\* Program::new: the program [insts, names, prefix] of an AST (prefix as
\* the bytes of the string); Program is the program of the compiler state c.
Program(c) ==
    [insts |-> c.insts, names |-> c.names, bug |-> c.bug,
     prefix |-> Utf8(PrefixFrom(c.insts, 1))]

Program_new(ast) ==
    Program(Compiler_push(
                Compiler_push(
                    compile([insts |-> <<Save(0)>>, names |-> <<>>, bug |-> FALSE],
                            ast),
                    Save(1)),
                Match))

\* The largest Save slot + 1, over the instructions.
RECURSIVE MaxSave(_, _)
MaxSave(insts, i) ==
    IF i > Len(insts) THEN 0
    ELSE LET n == MaxSave(insts, i + 1) IN
         IF insts[i].op = "Save" THEN Max(n, insts[i].slot + 1) ELSE n

num_captures(prog) == MaxSave(prog.insts, 1) \div 2

\* Regexp::new: the compiled handle, or the parse error.  Parsed is its
\* value given the result p of the parser, Dynamic the handle of the program.
Dynamic(re, prog) == [ok |-> TRUE, original |-> re, names |-> prog.names, p |-> prog]

Parsed(re, p) ==
    IF p.err # "" THEN [ok |-> FALSE, kind |-> p.err, pos |-> p.chari]
    ELSE Dynamic(re, Program_new(p.ret))

Regexp_new(re) == Parsed(re, parse(re))

(***************************************************************************)
(* The virtual machine (vm.rs).  input is the byte string of the text;     *)
(* capture locations are byte offsets, None when unset.                    *)
(***************************************************************************)

\* A faulty set: it reads no character before the offset ic, as if the text
\* began where the search starts.
CharReader_setAtStart(input, ic) ==
    IF Len(input) = 0
    THEN [prev |-> None, cur |-> None, next |-> 0, ret |-> 0 + 1, fail |-> FALSE]
    ELSE LET rc == char_range_at(input, ic) IN
         IF ic < Len(input)
         THEN [prev |-> None, cur |-> rc.ch, next |-> rc.next,
               ret |-> rc.next, fail |-> rc.fail]
         ELSE [prev |-> None, cur |-> None, next |-> 0,
               ret |-> Len(input) + 1, fail |-> FALSE]

\* CharReader: [prev, cur, next], and ret, the offset the call returned;
\* fail when a character was read at an offset that is no boundary.
CharReader_set(input, ic) ==
    IF Len(input) = 0
    THEN [prev |-> None, cur |-> None, next |-> 0, ret |-> 0 + 1, fail |-> FALSE]
    ELSE LET rp   == char_range_at_reverse(input, Min(ic, Len(input)))
             prev == IF ic > 0 THEN rp.ch ELSE None
             pf   == ic > 0 /\ rp.fail
             rc   == char_range_at(input, ic)
         IN  IF ic < Len(input)
             THEN [prev |-> prev, cur |-> rc.ch, next |-> rc.next,
                   ret |-> rc.next, fail |-> pf \/ rc.fail]
             ELSE [prev |-> prev, cur |-> None, next |-> 0,
                   ret |-> Len(input) + 1, fail |-> pf]

\* A faulty variant of CharReader_advance, which the termination of the VM
\* is tested against: past the last character it returns the length of the
\* text, not one more.
CharReader_advanceToEnd(input, chars) ==
    IF chars.next < Len(input)
    THEN LET rc == char_range_at(input, chars.next) IN
         [prev |-> chars.cur, cur |-> rc.ch, next |-> rc.next,
          ret |-> rc.next, fail |-> rc.fail]
    ELSE [prev |-> chars.cur, cur |-> None, next |-> Len(input) + 1,
          ret |-> Len(input), fail |-> FALSE]

CharReader_advance(input, chars) ==
    IF chars.next < Len(input)
    THEN LET rc == char_range_at(input, chars.next) IN
         [prev |-> chars.cur, cur |-> rc.ch, next |-> rc.next,
          ret |-> rc.next, fail |-> rc.fail]
    ELSE [prev |-> chars.cur, cur |-> None, next |-> Len(input) + 1,
          ret |-> Len(input) + 1, fail |-> FALSE]

\* Threads: the sparse set [queue, sparse, size] of threads [pc, groups].
Threads_new(num_insts, num_caps) ==
    [queue  |-> [i \in 1..num_insts |->
                    [pc |-> 0, groups |-> [j \in 1..(num_caps * 2) |-> None]]],
     sparse |-> [i \in 1..num_insts |-> 0],
     size   |-> 0]

Threads_add(t, which, pc, groups, empty) ==
    LET g == IF empty \/ which = "Exists" THEN t.queue[t.size + 1].groups
             ELSE IF which = "Location"
             THEN [t.queue[t.size + 1].groups EXCEPT ![1] = groups[1],
                                                    ![2] = groups[2]]
             ELSE groups
    IN  [t EXCEPT !.queue[t.size + 1] = [pc |-> pc, groups |-> g],
                  !.sparse[pc + 1] = t.size,
                  !.size = @ + 1]

\* A faulty variant of Threads_contains, which the invariant of the sparse
\* set is tested against: the entry of the queue is not compared with pc.
Threads_containsBySparse(t, pc) ==
    LET s == t.sparse[pc + 1] IN
    s < t.size

Threads_contains(t, pc) ==
    LET s == t.sparse[pc + 1] IN
    s < t.size /\ t.queue[s + 1].pc = pc

Threads_empty(t) == [t EXCEPT !.size = 0]

is_begin(nfa) == nfa.chars.prev = None
is_end(nfa) == nfa.chars.cur = None

is_word(c) ==
    IF c = None THEN FALSE
    ELSE \/ c = 95
         \/ c >= 48 /\ c <= 57
         \/ c >= 97 /\ c <= 122
         \/ c >= 65 /\ c <= 90

\* A faulty variant of is_word_boundary, which the word boundary is tested
\* against: there is no boundary at the start and at the end of the text.
is_word_boundaryInside(nfa) ==
    IF is_begin(nfa) \/ is_end(nfa) THEN FALSE
    ELSE \/ is_word(nfa.chars.cur) /\ ~is_word(nfa.chars.prev)
         \/ is_word(nfa.chars.prev) /\ ~is_word(nfa.chars.cur)

is_word_boundary(nfa) ==
    IF is_begin(nfa) THEN is_word(nfa.chars.cur)
    ELSE IF is_end(nfa) THEN is_word(nfa.chars.prev)
    ELSE \/ is_word(nfa.chars.cur) /\ ~is_word(nfa.chars.prev)
         \/ is_word(nfa.chars.prev) /\ ~is_word(nfa.chars.cur)

char_eq(casei, textc, regc) ==
    IF textc = None THEN FALSE
    ELSE regc = textc \/ (casei /\ to_uppercase(regc) = to_uppercase(textc))

char_is(textc, regc) == textc = regc

\* The ordering of a class range against the character: 0 when textc is in
\* the range, 1 when the range is greater, -1 when it is less.
class_cmp(casei, textc0, range) ==
    LET textc == IF casei THEN to_uppercase(textc0) ELSE textc0
        start == IF casei THEN to_uppercase(range[1]) ELSE range[1]
        end   == IF casei THEN to_uppercase(range[2]) ELSE range[2]
    IN  IF textc >= start /\ textc <= end THEN 0
        ELSE IF start > textc THEN 1 ELSE -1

\* A faulty variant of RestoreSlot, which the frame of add is tested
\* against: the slot keeps the value the Save wrote.
RestoreSlotNot(st, slot, old) == st

\* The end of the Save arm of Nfa::add: groups[slot] = old.
RestoreSlot(st, slot, old) == [st EXCEPT !.groups[slot + 1] = old]

\* Nfa::add: the epsilon closure of pc, added to the thread list.  nfa is
\* the VM [which, insts, input, ic, chars]; st is [list, groups], the list
\* added to and the capture array passed along; the result is st after the
\* call.
RECURSIVE add(_, _, _)
add(nfa, st, pc) ==
    LET inst == nfa.insts[pc + 1]
        st1  == [st EXCEPT !.list = Threads_add(@, nfa.which, pc, st.groups, TRUE)]
        op   == IF Threads_contains(st.list, pc) THEN "Contained" ELSE inst.op
    IN
    CASE op = "Contained" -> st
      [] op = "EmptyBegin" ->
            IF is_begin(nfa)
               \/ (is_set(inst.flags, FLAG_MULTI) /\ char_is(nfa.chars.prev, 10))
            THEN add(nfa, st1, pc + 1) ELSE st1
      [] op = "EmptyEnd" ->
            IF is_end(nfa)
               \/ (is_set(inst.flags, FLAG_MULTI) /\ char_is(nfa.chars.cur, 10))
            THEN add(nfa, st1, pc + 1) ELSE st1
      [] op = "EmptyWordBoundary" ->
            IF is_word_boundary(nfa) = ~is_set(inst.flags, FLAG_NEGATED)
            THEN add(nfa, st1, pc + 1) ELSE st1
      [] op = "Save" ->
            IF (nfa.which = "Location" /\ inst.slot <= 1) \/ nfa.which = "Submatches"
            THEN RestoreSlot(add(nfa, [st1 EXCEPT !.groups[inst.slot + 1] = nfa.ic],
                                 pc + 1),
                             inst.slot, st1.groups[inst.slot + 1])
            ELSE add(nfa, st1, pc + 1)
      [] op = "Jump" -> add(nfa, st1, inst.to)
      [] op = "Split" -> add(nfa, add(nfa, st1, inst.x), inst.y)
      [] op \in {"Match", "OneChar", "CharClass", "Any"} ->
            [st EXCEPT !.list = Threads_add(@, nfa.which, pc, st.groups, FALSE)]

\* Nfa::step on the thread at pc with capture array caps: [state, groups,
\* nlist, caps] after the call.
step(nfa, groups, nlist, caps, pc) ==
    LET inst == nfa.insts[pc + 1]
        cont == [state |-> "StepContinue", groups |-> groups, nlist |-> nlist,
                 caps |-> caps]
        fwd  == LET st == add(nfa, [list |-> nlist, groups |-> caps], pc + 1)
                IN  [cont EXCEPT !.nlist = st.list, !.caps = st.groups]
    IN
    CASE inst.op = "Match" ->
            IF nfa.which = "Exists"
            THEN [cont EXCEPT !.state = "StepMatchEarlyReturn"]
            ELSE IF nfa.which = "Location"
            THEN [cont EXCEPT !.state = "StepMatch",
                              !.groups = [groups EXCEPT ![1] = caps[1], ![2] = caps[2]]]
            ELSE [cont EXCEPT !.state = "StepMatch", !.groups = caps]
      [] inst.op = "OneChar" ->
            IF char_eq(is_set(inst.flags, FLAG_NOCASE), nfa.chars.prev, inst.c)
            THEN fwd ELSE cont
      [] inst.op = "CharClass" ->
            IF nfa.chars.prev # None
            THEN LET c      == nfa.chars.prev
                     negate == is_set(inst.flags, FLAG_NEGATED)
                     casei  == is_set(inst.flags, FLAG_NOCASE)
                     cmp(rc) == class_cmp(casei, c, rc)
                     found  == bsearch(inst.ranges, cmp) # None
                 IN  IF (found /\ ~negate) \/ (~found /\ negate) THEN fwd ELSE cont
            ELSE cont
      [] inst.op = "Any" ->
            IF is_set(inst.flags, FLAG_DOTNL) \/ ~char_eq(FALSE, nfa.chars.prev, 10)
            THEN fwd ELSE cont
      [] OTHER -> cont

\* The starting location of needle in haystack, or None.
RECURSIVE FindPrefixFrom(_, _, _)
FindPrefixFrom(needle, haystack, hayi) ==
    IF hayi > Len(haystack) - Len(needle) THEN None
    ELSE IF \A nedi \in 0..(Len(needle) - 1) :
               haystack[hayi + nedi + 1] = needle[nedi + 1]
    THEN hayi
    ELSE FindPrefixFrom(needle, haystack, hayi + 1)

\* A faulty variant of find_prefix, which the equivalence of the prefix
\* skip is tested against: an occurrence at the very start is not seen.
find_prefixAfterStart(needle, haystack) ==
    IF Len(needle) > Len(haystack) \/ Len(needle) = 0 THEN None
    ELSE FindPrefixFrom(needle, haystack, 1)

find_prefix(needle, haystack) ==
    IF Len(needle) > Len(haystack) \/ Len(needle) = 0 THEN None
    ELSE FindPrefixFrom(needle, haystack, 0)

\* A faulty variant of Stepped, which the leftmost-first property is tested
\* against: a StepMatch leaves the threads of lower priority in clist.
SteppedKeepingThreads(s, i, r) ==
    [s EXCEPT !.clist   = [@ EXCEPT !.queue[i + 1].groups = r.caps],
              !.nlist   = r.nlist,
              !.groups  = r.groups,
              !.matched = @ \/ r.state = "StepMatch",
              !.early   = r.state = "StepMatchEarlyReturn"]

\* One iteration of the inner loop of Nfa::run: the step of the thread at
\* index i of clist.  s is [clist, nlist, groups, matched, early, next_ic];
\* Stepped is s after the step that returned r: early records the return
\* on StepMatchEarlyReturn, and a StepMatch sets matched and empties clist.
Stepped(s, i, r) ==
    [s EXCEPT !.clist   = IF r.state = "StepMatch"
                          THEN Threads_empty([@ EXCEPT !.queue[i + 1].groups = r.caps])
                          ELSE [@ EXCEPT !.queue[i + 1].groups = r.caps],
              !.nlist   = r.nlist,
              !.groups  = r.groups,
              !.matched = @ \/ r.state = "StepMatch",
              !.early   = r.state = "StepMatchEarlyReturn"]

StepThread(nfa, s, i) ==
    Stepped(s, i, step(nfa, s.groups, s.nlist, s.clist.queue[i + 1].groups,
                       s.clist.queue[i + 1].pc))

\* The inner loop of Nfa::run: step every thread of clist from index i on.
RECURSIVE StepLoop(_, _, _)
StepLoop(nfa, s, i) ==
    IF s.early \/ i >= s.clist.size THEN s
    ELSE StepLoop(nfa, StepThread(nfa, s, i), i + 1)

\* A faulty variant of prefix_anchor, which the equivalence of the VMs is
\* tested against: the multi-line flag of the EmptyBegin is not looked at.
prefix_anchorAnyBegin(insts) ==
    insts[1 + 1].op = "EmptyBegin"

prefix_anchor(insts) ==
    insts[1 + 1].op = "EmptyBegin" /\ ~is_set(insts[1 + 1].flags, FLAG_MULTI)

\* The result of Nfa::run at the end of its loop.
RunDone(nfa, s) ==
    [fail |-> FALSE,
     locs |-> IF nfa.which = "Exists"
              THEN IF s.matched THEN <<0, 0>> ELSE <<None, None>>
              ELSE s.groups]

\* The run aborted on reading a character at an offset that is no boundary.
RunFailed == [fail |-> TRUE, locs |-> <<>>]

\* The jump ahead to the literal prefix, taken when no thread is left:
\* [found, nfa, s] after it.
PrefixSkip(nfa, s) ==
    IF s.clist.size = 0 /\ Len(nfa.prog.prefix) > 0
    THEN LET i == find_prefix(nfa.prog.prefix,
                              SubSeq(nfa.input, nfa.ic + 1, Len(nfa.input)))
             chars == CharReader_set(nfa.input, nfa.ic + i)
         IN  IF i = None THEN [found |-> FALSE, nfa |-> nfa, s |-> s]
             ELSE [found |-> TRUE,
                   nfa   |-> [nfa EXCEPT !.ic = nfa.ic + i, !.chars = chars],
                   s     |-> [s EXCEPT !.next_ic = chars.ret]]
    ELSE [found |-> TRUE, nfa |-> nfa, s |-> s]

\* The run ends with the result res.
RunStop(res) == [done |-> TRUE, res |-> res]

\* A faulty variant of RunSwap, which the agreement of the match kinds is
\* tested against: the early return reports no match.
RunSwapNoMatch(nfa2, s2) ==
    IF s2.early THEN RunStop([fail |-> FALSE, locs |-> <<None, None>>])
    ELSE [done |-> FALSE, nfa |-> nfa2,
          s |-> [s2 EXCEPT !.clist = s2.nlist, !.nlist = Threads_empty(s2.clist)]]

\* The end of an iteration of the outer loop of Nfa::run, s2 being the
\* state after the inner loop: the early return, or the swap of the lists.
RunSwap(nfa2, s2) ==
    IF s2.early THEN RunStop([fail |-> FALSE, locs |-> <<0, 0>>])
    ELSE [done |-> FALSE, nfa |-> nfa2,
          s |-> [s2 EXCEPT !.clist = s2.nlist, !.nlist = Threads_empty(s2.clist)]]

\* A faulty variant of RunAdded, which the priority of the matches is tested
\* against: the thread at pc 0 is added also after a match.
RunAddedAfterMatch(nfa, s, k) ==
    LET st    == IF s.clist.size = 0 \/ ~prefix_anchor(nfa.insts)
                 THEN add(k.nfa, [list |-> s.clist, groups |-> s.groups], 0)
                 ELSE [list |-> s.clist, groups |-> s.groups]
        chars == CharReader_advance(nfa.input, k.nfa.chars)
    IN  [nfa  |-> [k.nfa EXCEPT !.ic = k.s.next_ic, !.chars = chars],
         s    |-> [s EXCEPT !.clist = st.list, !.groups = st.groups,
                            !.next_ic = chars.ret],
         fail |-> k.nfa.chars.fail \/ chars.fail]

\* The first half of an iteration of the outer loop of Nfa::run, after the
\* jump k to the literal prefix: the thread at pc 0 is added and the reader
\* advances.  [nfa, s, fail] before the inner loop.
RunAdded(nfa, s, k) ==
    LET st    == IF s.clist.size = 0 \/ (~prefix_anchor(nfa.insts) /\ ~s.matched)
                 THEN add(k.nfa, [list |-> s.clist, groups |-> s.groups], 0)
                 ELSE [list |-> s.clist, groups |-> s.groups]
        chars == CharReader_advance(nfa.input, k.nfa.chars)
    IN  [nfa  |-> [k.nfa EXCEPT !.ic = k.s.next_ic, !.chars = chars],
         s    |-> [s EXCEPT !.clist = st.list, !.groups = st.groups,
                            !.next_ic = chars.ret],
         fail |-> k.nfa.chars.fail \/ chars.fail]

\* An iteration of the outer loop of Nfa::run after the jump k to the
\* literal prefix: the thread at pc 0 is added, the reader advances and the
\* inner loop steps every thread.
RunStep(nfa, s, k) ==
    CASE ~k.found -> RunStop(RunDone(nfa, s))
      [] k.found /\ RunAdded(nfa, s, k).fail -> RunStop(RunFailed)
      [] OTHER ->
            LET a == RunAdded(nfa, s, k) IN RunSwap(a.nfa, StepLoop(a.nfa, a.s, 0))

\* The test of the outer loop of Nfa::run and one iteration of it.  nfa
\* carries ic and chars; s is as in StepThread.  The result is RunStop of
\* [fail, locs] when the run ends, else [done, nfa, s] after the iteration.
RunIter(nfa, s) ==
    CASE nfa.chars.fail -> RunStop(RunFailed)
      [] ~nfa.chars.fail /\ (nfa.ic > nfa.end \/ (s.clist.size = 0 /\ s.matched)) ->
            RunStop(RunDone(nfa, s))
      [] OTHER -> RunStep(nfa, s, PrefixSkip(nfa, s))

\* The outer loop of Nfa::run, from the state r = [done, nfa, s] on.
RECURSIVE RunLoop(_)
RunLoop(r) == IF r.done THEN r.res ELSE RunLoop(RunIter(r.nfa, r.s))

which_num_caps(which, prog) ==
    IF which = "Exists" THEN 0
    ELSE IF which = "Location" THEN 1
    ELSE num_captures(prog)

\* The state [done, nfa, s] of the loop of Nfa::run before its first
\* iteration.
Nfa_start(which, prog, input, start, end) ==
    LET num_caps == which_num_caps(which, prog)
        chars    == CharReader_set(input, start)
    IN  [done |-> FALSE,
         nfa  |-> [which |-> which, prog |-> prog, insts |-> prog.insts,
                   input |-> input, start |-> start, end |-> end,
                   ic |-> start, chars |-> chars],
         s    |-> [clist   |-> Threads_new(Len(prog.insts), num_caps),
                   nlist   |-> Threads_new(Len(prog.insts), num_caps),
                   groups  |-> [j \in 1..(num_caps * 2) |-> None],
                   matched |-> FALSE,
                   early   |-> FALSE,
                   next_ic |-> chars.ret]]

Nfa_run(which, prog, input, start, end) ==
    RunLoop(Nfa_start(which, prog, input, start, end))

\* unflatten_capture_locations: the pairs of the flat array, and bug when a
\* pair has exactly one location set ('BUG: Invalid capture group').
unflatten_capture_locations(locs) ==
    LET n == Len(locs) \div 2 IN
    [bug   |-> \E k \in 1..n : (locs[2 * k - 1] = None) # (locs[2 * k] = None),
     pairs |-> [k \in 1..n |->
                   IF locs[2 * k - 1] # None /\ locs[2 * k] # None
                   THEN <<locs[2 * k - 1], locs[2 * k]>>
                   ELSE <<>>]]

\* vm::run: the run [which, start, fail, locs, bug, pairs]: the flat
\* locations of Nfa::run and their pairs.
Unflattened(which, start, r) ==
    LET u == unflatten_capture_locations(r.locs) IN
    [which |-> which, start |-> start, fail |-> r.fail, locs |-> r.locs,
     bug |-> ~r.fail /\ u.bug, pairs |-> u.pairs]

run(which, prog, input, start, end) ==
    Unflattened(which, start, Nfa_run(which, prog, input, start, end))

(***************************************************************************)
(* The public surface (re.rs).  A text is its UTF-8 byte string; a pattern *)
(* is its character string.  A call that can abort returns [fail, val].    *)
(***************************************************************************)

\* A faulty variant of QuoteChar, which the escape round trip is tested
\* against: no character is escaped.
QuoteCharPlain(c) == <<c>>

\* quote: every punctuation character of text (a character string) escaped.
QuoteChar(c) == IF is_punct(c) THEN <<Chr("\\"), c>> ELSE <<c>>

quote(text) == FlatMap(QuoteChar, text)

\* str::slice: the bytes from begin to end, failing unless both are
\* character boundaries with begin <= end.
str_slice(text, begin, end) ==
    [fail |-> ~(begin <= end /\ IsCharBoundary(text, begin)
                /\ IsCharBoundary(text, end)),
     val  |-> SubSeq(text, begin + 1, end)]

\* str::raw::slice_bytes: the bytes from begin to end, unchecked.
slice_bytes(text, begin, end) == SubSeq(text, begin + 1, end)

exec_slice(re, which, input, s, e) == run(which, re.p, input, s, e)

exec(re, which, input) == exec_slice(re, which, input, 0, Len(input))

has_match(caps) == Len(caps) >= 2 /\ caps[1] # None /\ caps[2] # None

\* is_match, find and captures: Exists, Location and Submatches are their
\* values given the run they made.
Exists(r) ==
    [fail |-> r.fail, val |-> ~r.fail /\ has_match(r.locs), runs |-> <<r>>]

is_match(re, text) == Exists(exec(re, "Exists", text))

\* find: <<s, e>>, or <<>> for None.
Location(caps) ==
    [fail |-> caps.fail,
     val  |-> IF ~caps.fail /\ has_match(caps.locs)
              THEN <<caps.locs[1], caps.locs[2]>> ELSE <<>>,
     runs |-> <<caps>>]

find(re, text) == Location(exec(re, "Location", text))

\* Captures::new: the handle [some, text, locs, named]; some is FALSE for
\* None.  named is the list of group names, or <<>> when the regexp has no
\* names.
NoCaptures == [some |-> FALSE, text |-> <<>>, locs |-> <<>>, named |-> <<>>]

Captures_new(re, search, locs) ==
    IF ~has_match(locs) THEN NoCaptures
    ELSE [some |-> TRUE, text |-> search, locs |-> locs, named |-> re.names]

Submatches(re, text, caps) ==
    [fail |-> caps.fail,
     val  |-> IF caps.fail THEN NoCaptures ELSE Captures_new(re, text, caps.locs),
     runs |-> <<caps>>]

captures(re, text) == Submatches(re, text, exec(re, "Submatches", text))

\* Captures::pos: <<s, e>>, or <<>> for None.
Captures_pos(caps, i) ==
    LET s == i * 2
        e == i * 2 + 1
    IN  IF e >= Len(caps.locs) \/ caps.locs[s + 1] = None THEN <<>>
        ELSE <<caps.locs[s + 1], caps.locs[e + 1]>>

Captures_at(caps, i) ==
    With(Captures_pos(caps, i), LAMBDA p :
        IF p = <<>> THEN [fail |-> FALSE, val |-> <<>>]
        ELSE str_slice(caps.text, p[1], p[2]))

\* The index of the group called name, or None.
RECURSIVE NamedIndex(_, _, _)
NamedIndex(named, name, i) ==
    IF i > Len(named) THEN None
    ELSE LET later == NamedIndex(named, name, i + 1) IN
         IF later # None THEN later
         ELSE IF named[i] = name THEN i - 1 ELSE None

Captures_name(caps, name) ==
    With(NamedIndex(caps.named, name, 1), LAMBDA i :
        IF i = None THEN [fail |-> FALSE, val |-> <<>>] ELSE Captures_at(caps, i))

\* FindMatches::next and FindCaptures::next, which differ in the match kind
\* and in the item: it is the iterator [last_match, last_end]; the result is
\* [it, item, fail, runs], item being the locations of the match or <<>> for
\* None, runs the VM runs the call made.
RECURSIVE Iter_next(_, _, _, _)

\* A faulty variant of Iter_item, which the order of the items is tested
\* against: an empty match at the end of the match before is yielded.
Iter_itemNoSkip(re, which, search, it, caps) ==
    CASE caps.fail -> [it |-> it, item |-> <<>>, fail |-> TRUE, runs |-> <<caps>>]
      [] ~caps.fail /\ ~has_match(caps.locs) ->
            [it |-> it, item |-> <<>>, fail |-> FALSE, runs |-> <<caps>>]
      [] OTHER ->
            [it   |-> [last_match |-> caps.locs[2], last_end |-> caps.locs[2]],
             item |-> caps.locs,
             fail |-> FALSE,
             runs |-> <<caps>>]

\* The rest of the call once the run caps is made: no item when it failed
\* or found no match; the call again, one byte later, when the match is
\* empty and at the end of the match before; else the match.
Iter_item(re, which, search, it, caps) ==
    CASE caps.fail -> [it |-> it, item |-> <<>>, fail |-> TRUE, runs |-> <<caps>>]
      [] ~caps.fail /\ ~has_match(caps.locs) ->
            [it |-> it, item |-> <<>>, fail |-> FALSE, runs |-> <<caps>>]
      [] OTHER ->
            IF caps.locs[2] - caps.locs[1] = 0
               /\ it.last_match # None /\ it.last_end = it.last_match
            THEN [Iter_next(re, which, search, [it EXCEPT !.last_end = @ + 1])
                    EXCEPT !.runs = <<caps>> \o @]
            ELSE [it   |-> [last_match |-> caps.locs[2], last_end |-> caps.locs[2]],
                  item |-> caps.locs,
                  fail |-> FALSE,
                  runs |-> <<caps>>]

Iter_next(re, which, search, it) ==
    IF it.last_end > Len(search)
    THEN [it |-> it, item |-> <<>>, fail |-> FALSE, runs |-> <<>>]
    ELSE Iter_item(re, which, search, it,
                   exec_slice(re, which, search, it.last_end, Len(search)))

FindMatches_next(re, search, it) == Iter_next(re, "Location", search, it)

FindCaptures_next(re, search, it) == Iter_next(re, "Submatches", search, it)

\* find_iter and captures_iter: the iterator before its first call.
find_iter == [last_match |-> None, last_end |-> 0]

captures_iter == [last_match |-> None, last_end |-> 0]

\* RegexpSplits::next: sp is [finder, last]; the result is [sp, some, piece,
\* fail, runs]; Splits_item is the result given n, the result of the call
\* of the finder.
Splits_item(text, sp, n) ==
    LET m == IF n.item = <<>>
             THEN [piece |-> str_slice(text, sp.last, Len(text)), last |-> Len(text)]
             ELSE [piece |-> str_slice(text, sp.last, n.item[1]), last |-> n.item[2]]
    IN  CASE n.fail ->
                [sp |-> sp, some |-> FALSE, piece |-> <<>>, fail |-> TRUE,
                 runs |-> n.runs]
          [] ~n.fail /\ n.item = <<>> /\ sp.last >= Len(text) ->
                [sp |-> [sp EXCEPT !.finder = n.it], some |-> FALSE,
                 piece |-> <<>>, fail |-> FALSE, runs |-> n.runs]
          [] OTHER ->
                [sp |-> [finder |-> n.it, last |-> m.last], some |-> ~m.piece.fail,
                 piece |-> m.piece.val, fail |-> m.piece.fail, runs |-> n.runs]

RegexpSplits_next(re, text, sp) ==
    Splits_item(text, sp, FindMatches_next(re, text, sp.finder))

split == [finder |-> find_iter, last |-> 0]

\* RegexpSplitsN::next: spn is [splits, cur, limit]; the result is [spn,
\* some, piece, fail, runs].
RegexpSplitsN_next(re, text, spn) ==
    IF spn.cur >= spn.limit
    THEN [spn |-> spn, some |-> FALSE, piece |-> <<>>, fail |-> FALSE, runs |-> <<>>]
    ELSE IF spn.cur + 1 >= spn.limit
    THEN LET piece == str_slice(text, spn.splits.last, Len(text)) IN
         [spn |-> [spn EXCEPT !.cur = @ + 1], some |-> ~piece.fail,
          piece |-> piece.val, fail |-> piece.fail, runs |-> <<>>]
    ELSE LET n == RegexpSplits_next(re, text, spn.splits) IN
         [spn |-> [spn EXCEPT !.cur = @ + 1, !.splits = n.sp], some |-> n.some,
          piece |-> n.piece, fail |-> n.fail, runs |-> n.runs]

\* splitn: the iterator before its first call.
splitn(limit) == [splits |-> split, cur |-> 0, limit |-> limit]

\* str::replace: every non-overlapping occurrence of from, left to right,
\* replaced by to.
RECURSIVE str_replace(_, _, _)
str_replace(s, from, to) ==
    IF Len(s) < Len(from) THEN s
    ELSE IF SubSeq(s, 1, Len(from)) = from
    THEN to \o str_replace(SubSeq(s, Len(from) + 1, Len(s)), from, to)
    ELSE <<Head(s)>> \o str_replace(Tail(s), from, to)

\* The regexp Captures::expand compiles on every call.
ExpandRegexp ==
    Regexp_new(Str(<<"(", "^", "|", "[", "^", "$", "]", "|", "\\", "b", ")",
                     "\\", "$", "(", "\\", "w", "+", ")">>))

\* The replacers: a template string, expanded; NoExpand, a string taken as
\* it is; and the closure of Captures::expand over its captures self.
StrReplacer(s) == [kind |-> "str", text |-> s, self |-> NoCaptures]
NoExpand(s) == [kind |-> "NoExpand", text |-> s, self |-> NoCaptures]
ExpandReplacer(self) == [kind |-> "expand", text |-> <<>>, self |-> self]

\* The closure of Captures::expand: the text before the reference followed
\* by the group the reference names.
ExpandClosure(self, refs) ==
    LET pre  == Captures_at(refs, 1)
        name == Captures_at(refs, 2)
        i    == from_str_radix(name.val, 10)
        grp  == IF i = None THEN Captures_name(self, name.val)
                ELSE Captures_at(self, i)
    IN  [fail |-> pre.fail \/ name.fail \/ grp.fail, val |-> pre.val \o grp.val]

RECURSIVE replacen(_, _, _, _)
RECURSIVE ReplaceLoop(_, _, _, _, _)

replace_all(re, text, rep) == replacen(re, text, 0, rep)

replace(re, text, rep) == replacen(re, text, 1, rep)

\* Captures::expand: Unescaped is its value given t, the text with the
\* references replaced.
Unescaped(t) == [fail |-> t.fail, val |-> str_replace(t.val, <<36, 36>>, <<36>>)]

expand(self, text) ==
    Unescaped(replace_all(ExpandRegexp, text, ExpandReplacer(self)))

reg_replace(rep, caps) ==
    IF rep.kind = "NoExpand" THEN [fail |-> FALSE, val |-> rep.text]
    ELSE IF rep.kind = "str" THEN expand(caps, rep.text)
    ELSE ExpandClosure(rep.self, caps)

\* The loop of replacen over captures_iter: st is [done, it, new,
\* last_match, i] while the loop runs and [done, fail, val] once it ended.
\* Replaced is st after the iteration that found n, p being the location of
\* the match and r the replacement.
Replaced(re, text, limit, st, n, p, r) ==
    CASE n.fail -> [done |-> TRUE, fail |-> TRUE, val |-> <<>>]
      [] ~n.fail /\ (n.item = <<>> \/ (limit > 0 /\ st.i >= limit)) ->
            [done |-> TRUE, fail |-> FALSE,
             val  |-> st.new \o slice_bytes(text, st.last_match, Len(text))]
      [] OTHER ->
            IF r.fail THEN [done |-> TRUE, fail |-> TRUE, val |-> <<>>]
            ELSE [done       |-> FALSE,
                  it         |-> n.it,
                  new        |-> st.new \o slice_bytes(text, st.last_match, p[1])
                                        \o r.val,
                  last_match |-> p[2],
                  i          |-> st.i + 1]

Replace_item(re, text, limit, rep, st, n) ==
    Replaced(re, text, limit, st, n,
             Captures_pos(Captures_new(re, text, n.item), 0),
             reg_replace(rep, Captures_new(re, text, n.item)))

ReplaceLoop(re, text, limit, rep, st) ==
    IF st.done THEN st
    ELSE ReplaceLoop(re, text, limit, rep,
                     Replace_item(re, text, limit, rep, st,
                                  FindCaptures_next(re, text, st.it)))

replacen(re, text, limit, rep) ==
    ReplaceLoop(re, text, limit, rep,
                [done |-> FALSE, it |-> captures_iter, new |-> <<>>,
                 last_match |-> 0, i |-> 0])

\* str::chars: the characters of a text.
RECURSIVE str_chars(_, _)
str_chars(text, i) ==
    IF i >= Len(text) THEN <<>>
    ELSE LET r == char_range_at(text, i) IN <<r.ch>> \o str_chars(text, r.next)

(***************************************************************************)
(* The matcher the regexp! macro generates for a program (macro.rs): the   *)
(* Pike VM of vm.rs specialised to the instructions of the program.  Its   *)
(* capture arrays have a slot for every capture of the program in every    *)
(* match kind, and a character class is a match over the arms of its       *)
(* ranges.                                                                 *)
(***************************************************************************)

\* match_class: the match expression over the arms of the ranges, on the
\* character c (in upper case when casei).
match_class(casei, ranges, c) ==
    \E i \in 1..Len(ranges) :
        LET start == IF casei THEN to_uppercase(ranges[i][1]) ELSE ranges[i][1]
            end   == IF casei THEN to_uppercase(ranges[i][2]) ELSE ranges[i][2]
        IN  start <= c /\ c <= end

\* Threads::add and Threads::add_empty of the generated matcher.
NativeThreads_add(t, which, pc, groups) ==
    LET g == IF which = "Exists" THEN t.queue[t.size + 1].groups
             ELSE IF which = "Location"
             THEN [t.queue[t.size + 1].groups EXCEPT ![1] = groups[1],
                                                    ![2] = groups[2]]
             ELSE groups
    IN  [t EXCEPT !.queue[t.size + 1] = [pc |-> pc, groups |-> g],
                  !.sparse[pc + 1] = t.size,
                  !.size = @ + 1]

NativeThreads_add_empty(t, pc) ==
    [t EXCEPT !.queue[t.size + 1].pc = pc,
              !.sparse[pc + 1] = t.size,
              !.size = @ + 1]

\* The add method of the generated matcher: the arms of add_insts.
RECURSIVE native_add(_, _, _)
native_add(nfa, st, pc) ==
    LET inst == nfa.insts[pc + 1]
        st1  == [st EXCEPT !.list = NativeThreads_add_empty(@, pc)]
        op   == IF Threads_contains(st.list, pc) THEN "Contained" ELSE inst.op
    IN
    CASE op = "Contained" -> st
      [] op = "EmptyBegin" ->
            IF is_begin(nfa)
               \/ (is_set(inst.flags, FLAG_MULTI) /\ nfa.chars.prev = 10)
            THEN native_add(nfa, st1, pc + 1) ELSE st1
      [] op = "EmptyEnd" ->
            IF is_end(nfa)
               \/ (is_set(inst.flags, FLAG_MULTI) /\ nfa.chars.cur = 10)
            THEN native_add(nfa, st1, pc + 1) ELSE st1
      [] op = "EmptyWordBoundary" ->
            IF (IF is_set(inst.flags, FLAG_NEGATED)
                THEN ~is_word_boundary(nfa) ELSE is_word_boundary(nfa))
            THEN native_add(nfa, st1, pc + 1) ELSE st1
      [] op = "Save" ->
            IF nfa.which = "Submatches" \/ (inst.slot <= 1 /\ nfa.which = "Location")
            THEN [native_add(nfa, [st1 EXCEPT !.groups[inst.slot + 1] = nfa.ic],
                             pc + 1)
                    EXCEPT !.groups[inst.slot + 1] = st1.groups[inst.slot + 1]]
            ELSE native_add(nfa, st1, pc + 1)
      [] op = "Jump" -> native_add(nfa, st1, inst.to)
      [] op = "Split" -> native_add(nfa, native_add(nfa, st1, inst.x), inst.y)
      [] OTHER ->
            [st EXCEPT !.list = NativeThreads_add(@, nfa.which, pc, st.groups)]

\* The step method of the generated matcher: the arms of step_insts.
native_step(nfa, groups, nlist, caps, pc) ==
    LET inst == nfa.insts[pc + 1]
        cont == [state |-> "StepContinue", groups |-> groups, nlist |-> nlist,
                 caps |-> caps]
        fwd  == LET st == native_add(nfa, [list |-> nlist, groups |-> caps], pc + 1)
                IN  [cont EXCEPT !.nlist = st.list, !.caps = st.groups]
    IN
    CASE inst.op = "Match" ->
            IF nfa.which = "Exists"
            THEN [cont EXCEPT !.state = "StepMatchEarlyReturn"]
            ELSE IF nfa.which = "Location"
            THEN [cont EXCEPT !.state = "StepMatch",
                              !.groups = [groups EXCEPT ![1] = caps[1], ![2] = caps[2]]]
            ELSE [cont EXCEPT !.state = "StepMatch", !.groups = caps]
      [] inst.op = "OneChar" ->
            IF is_set(inst.flags, FLAG_NOCASE)
            THEN IF nfa.chars.prev # None
                    /\ to_uppercase(nfa.chars.prev) = to_uppercase(inst.c)
                 THEN fwd ELSE cont
            ELSE IF nfa.chars.prev = inst.c THEN fwd ELSE cont
      [] inst.op = "CharClass" ->
            IF nfa.chars.prev # None
            THEN LET negate == is_set(inst.flags, FLAG_NEGATED)
                     casei  == is_set(inst.flags, FLAG_NOCASE)
                     c      == IF casei THEN to_uppercase(nfa.chars.prev)
                               ELSE nfa.chars.prev
                     found  == match_class(casei, inst.ranges, c)
                 IN  IF (IF negate THEN ~found ELSE found) THEN fwd ELSE cont
            ELSE cont
      [] inst.op = "Any" ->
            IF is_set(inst.flags, FLAG_DOTNL) THEN fwd
            ELSE IF nfa.chars.prev # 10 THEN fwd ELSE cont
      [] OTHER -> cont

\* The inner loop of the run method of the generated matcher.
RECURSIVE NativeStepLoop(_, _, _)
NativeStepLoop(nfa, s, i) ==
    IF s.early \/ i >= s.clist.size THEN s
    ELSE NativeStepLoop(nfa,
                        Stepped(s, i, native_step(nfa, s.groups, s.nlist,
                                                  s.clist.queue[i + 1].groups,
                                                  s.clist.queue[i + 1].pc)),
                        i + 1)

\* The loop of the run method of the generated matcher, from its test on:
\* [fail, locs] at its end.
RECURSIVE NativeRunLoop(_, _)
NativeRunLoop(nfa, s) ==
    LET k     == PrefixSkip(nfa, s)
        st    == IF s.clist.size = 0 \/ (~prefix_anchor(nfa.insts) /\ ~s.matched)
                 THEN native_add(k.nfa, [list |-> s.clist, groups |-> s.groups], 0)
                 ELSE [list |-> s.clist, groups |-> s.groups]
        chars == CharReader_advance(nfa.input, k.nfa.chars)
        nfa2  == [k.nfa EXCEPT !.ic = k.s.next_ic, !.chars = chars]
        s2    == NativeStepLoop(nfa2, [s EXCEPT !.clist = st.list,
                                                !.groups = st.groups,
                                                !.next_ic = chars.ret], 0)
    IN
    CASE nfa.chars.fail -> RunFailed
      [] ~nfa.chars.fail /\ (nfa.ic > nfa.end \/ (s.clist.size = 0 /\ s.matched)) ->
            RunDone(nfa, s)
      [] OTHER ->
            IF ~k.found THEN RunDone(nfa, s)
            ELSE IF k.nfa.chars.fail \/ chars.fail THEN RunFailed
            ELSE IF s2.early THEN [fail |-> FALSE, locs |-> <<0, 0>>]
            ELSE NativeRunLoop(nfa2, [s2 EXCEPT !.clist = s2.nlist,
                                                !.nlist = Threads_empty(s2.clist)])

\* exec of the generated matcher: Nfa::run(start, end) on queues and capture
\* arrays of num_cap_locs slots.
native_exec(which, prog, input, start, end) ==
    LET chars == CharReader_set(input, start) IN
    NativeRunLoop([which |-> which, prog |-> prog, insts |-> prog.insts,
                   input |-> input, start |-> start, end |-> end,
                   ic |-> start, chars |-> chars],
                  [clist   |-> Threads_new(Len(prog.insts), num_captures(prog)),
                   nlist   |-> Threads_new(Len(prog.insts), num_captures(prog)),
                   groups  |-> [j \in 1..(2 * num_captures(prog)) |-> None],
                   matched |-> FALSE,
                   early   |-> FALSE,
                   next_ic |-> chars.ret])

(***************************************************************************)
(* The state machine: a client compiles a regexp, from a pattern or from   *)
(* the quoted text, and calls the matching operations on a text; it holds  *)
(* at most one iterator at a time.                                         *)
(***************************************************************************)

\* The length, in characters, of the longest text.
MaxTextLen == 3
\* The length, in characters, of the longest quoted text.
MaxQuoteLen == 2

RECURSIVE StringsUpTo(_, _)
StringsUpTo(alphabet, n) ==
    IF n = 0 THEN {<<>>}
    ELSE LET shorter == StringsUpTo(alphabet, n - 1) IN
         shorter \cup {<<c>> \o s : c \in alphabet, s \in {t \in shorter : Len(t) = n - 1}}

TextChars == {Chr("a"), Chr("b"), Chr("e'")}
ReplaceChars == {Chr("a"), Chr("$")}
QuoteChars ==
    {Chr("a"), Chr("e'"), Chr("."), Chr("\\"), Chr("$"), Chr("*"), Chr("("),
     Chr("["), Chr("|"), Chr("^"), Chr("_")}

Texts == {Utf8(s) : s \in StringsUpTo(TextChars, MaxTextLen)}
ReplaceTexts == {Utf8(s) : s \in StringsUpTo(ReplaceChars, MaxTextLen)}
QuoteTexts == {Utf8(s) : s \in StringsUpTo(QuoteChars, MaxQuoteLen)}

Patterns ==
    { Str(<<"a">>),
      Str(<<"a", "b">>),
      Str(<<"a", "*">>),
      Str(<<"a", "+">>),
      Str(<<"(", "a", "|", "a", "b", ")", "(", "b", "?", ")">>),
      Str(<<"(", "a", ")", "|", "b">>),
      Str(<<"a", "|", "b", "*", "?">>),
      Str(<<"^", "a">>),
      Str(<<"a", "$">>),
      Str(<<"\\", "b">>),
      Str(<<".">>),
      Str(<<".", "+">>),
      Str(<<"[", "^", "a", "]">>),
      Str(<<"(", "a", "*", ")", "+">>),
      Str(<<"a", "?", "?", "b">>),
      Str(<<"e'">>),
      Str(<<"(", "?", "i", ")", "A", "+">>),
      Str(<<"(", "a", "*", "?", ")", "(", "e'", "|", "b", ")">>),
      Str(<<"\\", "$">>) }

\* The tasks that run the VM against the one compiled program.
Tasks == {"t1", "t2"}

\* pattern is the string the client handed to Regexp::new, <<>> before the
\* call.  execs holds, for every task, the execution of the VM it is in:
\* its match kind and the state of the loop of Nfa::run, [done, nfa, s]
\* between two iterations and [done, res] after the last.  parser is the
\* Parser of a parse that runs one iteration of its loop at a time.
VARIABLES pattern, re, text, matched, found, caps, iter, out, replaced, execs,
          parser

vars == <<pattern, re, text, matched, found, caps, iter, out, replaced, execs, parser>>

NoRegexp == [ok |-> FALSE, kind |-> "NoRegexp", pos |-> 0]
NotCalled == [called |-> FALSE]
Called(r) == [called |-> TRUE, fail |-> r.fail, val |-> r.val, runs |-> r.runs]

NoIter == [kind |-> "NoIter"]

\* A task that has not called the VM.
NoExec == [status |-> "idle"]

\* No parse has started.
NoParser == [err |-> "NoParser"]

InitWith(texts) ==
    /\ text \in texts
    /\ pattern = <<>>
    /\ re = NoRegexp
    /\ matched = NotCalled
    /\ found = NotCalled
    /\ caps = NotCalled
    /\ iter = NoIter
    /\ out = <<>>
    /\ replaced = NotCalled
    /\ execs = [t \in Tasks |-> NoExec]
    /\ parser = NoParser

Init == InitWith(Texts)

InitReplace == InitWith(ReplaceTexts)

InitQuote == InitWith(QuoteTexts)

\* Regexp::new(p)
New(p) ==
    /\ re = NoRegexp
    /\ pattern' = p
    /\ re' = Regexp_new(p)
    /\ UNCHANGED <<text, matched, found, caps, iter, out, replaced, execs, parser>>

\* Regexp::new(quote(text))
NewQuote ==
    /\ re = NoRegexp
    /\ pattern' = quote(str_chars(text, 0))
    /\ re' = Regexp_new(quote(str_chars(text, 0)))
    /\ UNCHANGED <<text, matched, found, caps, iter, out, replaced, execs, parser>>

\* re.is_match(text)
IsMatch ==
    /\ re.ok
    /\ ~matched.called
    /\ matched' = Called(is_match(re, text))
    /\ UNCHANGED <<pattern, re, text, found, caps, iter, out, replaced, execs, parser>>

\* re.find(text)
Find ==
    /\ re.ok
    /\ ~found.called
    /\ found' = Called(find(re, text))
    /\ UNCHANGED <<pattern, re, text, matched, caps, iter, out, replaced, execs, parser>>

\* re.captures(text)
GetCaptures ==
    /\ re.ok
    /\ ~caps.called
    /\ caps' = Called(captures(re, text))
    /\ UNCHANGED <<pattern, re, text, matched, found, iter, out, replaced, execs, parser>>

NewIter(kind) ==
    [kind |-> kind, finder |-> find_iter, last |-> 0, status |-> "active",
     runs |-> <<>>]

IterStatus(fail, some) ==
    IF fail THEN "failed" ELSE IF some THEN "active" ELSE "done"

\* re.find_iter(text)
FindIter ==
    /\ re.ok
    /\ iter = NoIter
    /\ iter' = NewIter("FindMatches")
    /\ UNCHANGED <<pattern, re, text, matched, found, caps, out, replaced, execs, parser>>

\* re.captures_iter(text)
CapturesIter ==
    /\ re.ok
    /\ iter = NoIter
    /\ iter' = NewIter("FindCaptures")
    /\ UNCHANGED <<pattern, re, text, matched, found, caps, out, replaced, execs, parser>>

\* re.split(text)
Split_ ==
    /\ re.ok
    /\ iter = NoIter
    /\ iter' = NewIter("RegexpSplits")
    /\ UNCHANGED <<pattern, re, text, matched, found, caps, out, replaced, execs, parser>>

\* FindMatches::next, until it returns None or aborts
FindMatchesNext ==
    /\ iter.kind = "FindMatches"
    /\ iter.status = "active"
    /\ \E n \in {FindMatches_next(re, text, iter.finder)} :
       /\ iter' = [iter EXCEPT !.finder = n.it,
                               !.status = IterStatus(n.fail, n.item # <<>>),
                               !.runs = n.runs]
       /\ out' = IF n.item # <<>> THEN Append(out, <<n.item[1], n.item[2]>>)
                 ELSE out
    /\ UNCHANGED <<pattern, re, text, matched, found, caps, replaced, execs, parser>>

\* FindCaptures::next, until it returns None or aborts
FindCapturesNext ==
    /\ iter.kind = "FindCaptures"
    /\ iter.status = "active"
    /\ \E n \in {FindCaptures_next(re, text, iter.finder)} :
       /\ iter' = [iter EXCEPT !.finder = n.it,
                               !.status = IterStatus(n.fail, n.item # <<>>),
                               !.runs = n.runs]
       /\ out' = IF n.item # <<>> THEN Append(out, Captures_new(re, text, n.item))
                 ELSE out
    /\ UNCHANGED <<pattern, re, text, matched, found, caps, replaced, execs, parser>>

\* RegexpSplits::next, until it returns None or aborts
RegexpSplitsNext ==
    /\ iter.kind = "RegexpSplits"
    /\ iter.status = "active"
    /\ \E n \in {RegexpSplits_next(re, text, [finder |-> iter.finder,
                                                last |-> iter.last])} :
       /\ iter' = [iter EXCEPT !.finder = n.sp.finder,
                               !.last = n.sp.last,
                               !.status = IterStatus(n.fail, n.some),
                               !.runs = n.runs]
       /\ out' = IF n.some THEN Append(out, n.piece) ELSE out
    /\ UNCHANGED <<pattern, re, text, matched, found, caps, replaced, execs, parser>>

\* re.splitn(text, limit)
SplitN(limit) ==
    /\ re.ok
    /\ iter = NoIter
    /\ iter' = [kind |-> "RegexpSplitsN", spn |-> splitn(limit),
                status |-> "active", runs |-> <<>>]
    /\ UNCHANGED <<pattern, re, text, matched, found, caps, out, replaced, execs, parser>>

\* RegexpSplitsN::next, until it returns None or aborts
RegexpSplitsNNext ==
    /\ iter.kind = "RegexpSplitsN"
    /\ iter.status = "active"
    /\ \E n \in {RegexpSplitsN_next(re, text, iter.spn)} :
       /\ iter' = [iter EXCEPT !.spn = n.spn,
                               !.status = IterStatus(n.fail, n.some),
                               !.runs = n.runs]
       /\ out' = IF n.some THEN Append(out, n.piece) ELSE out
    /\ UNCHANGED <<pattern, re, text, matched, found, caps, replaced, execs, parser>>

\* The replacement templates the client uses: "$0".
Templates == {Utf8(Str(<<"$", "0">>))}

\* re.replace_all(text, rep)
ReplaceAll(rep) ==
    /\ re.ok
    /\ ~replaced.called
    /\ \E r \in {replace_all(re, text, StrReplacer(rep))} :
       replaced' = [called |-> TRUE, fail |-> r.fail, val |-> r.val, rep |-> rep,
                    limit |-> 0]
    /\ UNCHANGED <<pattern, re, text, matched, found, caps, iter, out, execs, parser>>

\* re.replace(text, rep)
Replace(rep) ==
    /\ re.ok
    /\ ~replaced.called
    /\ \E r \in {replace(re, text, StrReplacer(rep))} :
       replaced' = [called |-> TRUE, fail |-> r.fail, val |-> r.val, rep |-> rep,
                    limit |-> 1]
    /\ UNCHANGED <<pattern, re, text, matched, found, caps, iter, out, execs, parser>>

\* re.replacen(text, limit, rep)
ReplaceN(limit, rep) ==
    /\ re.ok
    /\ ~replaced.called
    /\ \E r \in {replacen(re, text, limit, StrReplacer(rep))} :
       replaced' = [called |-> TRUE, fail |-> r.fail, val |-> r.val, rep |-> rep,
                    limit |-> limit]
    /\ UNCHANGED <<pattern, re, text, matched, found, caps, iter, out, execs, parser>>

Next ==
    \/ \E p \in Patterns : New(p)
    \/ IsMatch
    \/ Find
    \/ GetCaptures

NextIter ==
    \/ \E p \in Patterns : New(p)
    \/ FindIter
    \/ CapturesIter
    \/ Split_
    \/ FindMatchesNext
    \/ FindCapturesNext
    \/ RegexpSplitsNext

NextReplace ==
    \/ \E p \in Patterns : New(p)
    \/ \E rep \in Templates : ReplaceAll(rep)

NextQuote ==
    \/ NewQuote
    \/ IsMatch
    \/ Find

Spec == Init /\ [][Next]_vars

SpecIter == Init /\ [][NextIter]_vars

SpecReplace == InitReplace /\ [][NextReplace]_vars

SpecQuote == InitQuote /\ [][NextQuote]_vars

\* The client keeps calling next until it returns None: weak fairness of
\* FindMatchesNext and FindCapturesNext, each of which can be taken, and
\* changes the state, exactly when its iterator is active.
NextCallable ==
    iter # NoIter /\ iter.kind \in {"FindMatches", "FindCaptures"}
        /\ iter.status = "active"

IterFair ==
    <>[]NextCallable => []<><<FindMatchesNext \/ FindCapturesNext>>_vars

SpecIterLive == SpecIter /\ IterFair

(***************************************************************************)
(* The client compiles patterns made of a few pieces of syntax.            *)
(***************************************************************************)

\* The patterns of at most n pieces, each piece a string of the set pieces.
PatternsOf(pieces, n) ==
    {FlatMap(LAMBDA x : x, s) : s \in StringsUpTo(pieces, n)}

\* The number of pieces of the longest pattern of SyntaxPatterns.
MaxSyntaxLen == 3

SyntaxPieces ==
    { Str(<<"a">>), Str(<<"\\">>), Str(<<"[">>), Str(<<"]">>), Str(<<"-">>),
      Str(<<"(">>), Str(<<")">>), Str(<<"?">>), Str(<<"|">>), Str(<<"*">>),
      Str(<<"{">>), Str(<<"}">>), Str(<<"1">>) }

SyntaxPatterns == PatternsOf(SyntaxPieces, MaxSyntaxLen)

InitSyntax == InitWith({<<>>})

NextSyntax == \E p \in SyntaxPatterns : New(p)

SpecSyntax == InitSyntax /\ [][NextSyntax]_vars

(***************************************************************************)
(* The client compiles a counted repetition and searches a text.           *)
(***************************************************************************)

\* The largest bound written in a counted repetition.
MaxCount == 2

\* n copies of the string s.
RECURSIVE Copies(_, _)
Copies(s, n) == IF n = 0 THEN <<>> ELSE s \o Copies(s, n - 1)

\* The decimal numeral of n.
RECURSIVE Numeral(_)
Numeral(n) ==
    IF n < 10 THEN <<48 + n>> ELSE Numeral(n \div 10) \o <<48 + (n % 10)>>

\* The operands e of the counted repetitions.
Operands ==
    { Str(<<"a">>), Str(<<".">>), Str(<<"(", "?", ":", "a", "|", "b", ")">>) }

\* The ungreedy suffix, or none.
Suffixes == { <<>>, Str(<<"?">>) }

\* e{n}, e{n,} and e{n,m}, with the suffix g.
Exactly(e, n, g) == e \o Str(<<"{">>) \o Numeral(n) \o Str(<<"}">>) \o g
AtLeast(e, n, g) == e \o Str(<<"{">>) \o Numeral(n) \o Str(<<",", "}">>) \o g
Between(e, n, m, g) ==
    e \o Str(<<"{">>) \o Numeral(n) \o Str(<<",">>) \o Numeral(m)
      \o Str(<<"}">>) \o g

CountedPatterns ==
    UNION { {Exactly(e, n, g), AtLeast(e, n, g)} \cup
            {Between(e, n, m, g) : m \in n..MaxCount} :
            e \in Operands, n \in 0..MaxCount, g \in Suffixes }

NextCounted ==
    \/ \E p \in CountedPatterns : New(p)
    \/ IsMatch
    \/ Find

SpecCounted == Init /\ [][NextCounted]_vars

(***************************************************************************)
(* The client compiles patterns with flag groups.                          *)
(***************************************************************************)

\* The flags, by their letters.
FlagLetters == {Chr("i"), Chr("m"), Chr("s"), Chr("U")}

\* The letters of the set fs of flags, written in the order i, m, s, U.
Letters(fs) ==
    SelectSeq(Str(<<"i", "m", "s", "U">>), LAMBDA c : c \in fs)

\* The flag group (?X-Y), (?X) when Y is empty.
FlagGroup(X, Y) ==
    Str(<<"(", "?">>) \o Letters(X)
        \o (IF Y = {} THEN <<>> ELSE Str(<<"-">>) \o Letters(Y))
        \o Str(<<")">>)

\* The group that sets the flags B, nothing when B is empty.
Setting(B) == IF B = {} THEN <<>> ELSE FlagGroup(B, {})

\* An expression whose program shows the four flags it was parsed under.
FlagProbe == Str(<<"a", ".", "$", "a", "?">>)

\* The flags B set, then the group (?X-Y), then the probe.
SettingPatterns ==
    { Setting(t[1]) \o FlagGroup(t[2], t[3]) \o FlagProbe :
        t \in { u \in (SUBSET FlagLetters) \X (SUBSET FlagLetters)
                        \X (SUBSET FlagLetters) :
                    u[2] \cap u[3] = {} /\ u[2] \cup u[3] # {} } }

FlagPatterns == SettingPatterns

NextFlags == \E p \in FlagPatterns : New(p)

SpecFlags == InitSyntax /\ [][NextFlags]_vars

(***************************************************************************)
(* The client compiles a bracketed class and searches a text.              *)
(***************************************************************************)

\* The number of items of the longest bracketed class.
MaxClassItems == 3

\* The items written in a class: single characters and nested classes.
ClassItems ==
    { Str(<<"a">>), Str(<<"b">>), Str(<<"c">>), Str(<<"\\", "W">>),
      Str(<<"[", ":", "l", "o", "w", "e", "r", ":", "]">>) }

ItemLists == StringsUpTo(ClassItems, MaxClassItems) \ {<<>>}

\* [items] or [^items]
ClassPattern(negated, items) ==
    Str(<<"[">>) \o (IF negated THEN Str(<<"^">>) ELSE <<>>)
        \o FlatMap(LAMBDA x : x, items) \o Str(<<"]">>)

ClassPatterns ==
    {ClassPattern(negated, items) : negated \in BOOLEAN, items \in ItemLists}

NextClass ==
    \/ \E p \in ClassPatterns : New(p)
    \/ Find

SpecClass == Init /\ [][NextClass]_vars

(***************************************************************************)
(* The client compiles an anchored pattern and iterates over the matches   *)
(* in a text with line feeds.                                              *)
(***************************************************************************)

AnchorChars == {Chr("a"), Chr("LF")}

AnchorTexts == {Utf8(s) : s \in StringsUpTo(AnchorChars, MaxTextLen)}

\* The anchored patterns: the flag m or not, then ^, a and $, each present
\* or not, with one anchor at least.
AnchorForms ==
    { f \in [m : BOOLEAN, b : BOOLEAN, a : BOOLEAN, e : BOOLEAN] : f.b \/ f.e }

AnchorPattern(f) ==
    (IF f.m THEN Str(<<"(", "?", "m", ")">>) ELSE <<>>)
        \o (IF f.b THEN Str(<<"^">>) ELSE <<>>)
        \o (IF f.a THEN Str(<<"a">>) ELSE <<>>)
        \o (IF f.e THEN Str(<<"$">>) ELSE <<>>)

AnchorPatterns == {AnchorPattern(f) : f \in AnchorForms}

\* The replacement the client uses: the text "b".
AnchorTemplate == Utf8(Str(<<"b">>))

InitAnchor == InitWith(AnchorTexts)

NextAnchor ==
    \/ \E p \in AnchorPatterns : New(p)
    \/ FindIter
    \/ CapturesIter
    \/ FindMatchesNext
    \/ FindCapturesNext
    \/ ReplaceAll(AnchorTemplate)

SpecAnchor == InitAnchor /\ [][NextAnchor]_vars

(***************************************************************************)
(* The client compiles patterns made of repetition operators, groups,      *)
(* alternation and the anchor ^.                                           *)
(***************************************************************************)

\* The number of pieces of the longest pattern of RepeatPatterns.
MaxRepeatLen == 4

RepeatPieces ==
    { Str(<<"a">>), Str(<<"?">>), Str(<<"*">>), Str(<<"+">>),
      Str(<<"{", "1", "}">>), Str(<<"(">>), Str(<<")">>), Str(<<"|">>),
      Str(<<"^">>) }

RepeatPatterns == PatternsOf(RepeatPieces, MaxRepeatLen)

NextRepeat == \E p \in RepeatPatterns : New(p)

SpecRepeat == InitSyntax /\ [][NextRepeat]_vars

(***************************************************************************)
(* The client compiles a pattern that opens with a written flag group.     *)
(***************************************************************************)

\* The length of the longest written flag list.
MaxFlagListLen == 3

\* The characters written in a flag list: the four flags, a letter that is
\* no flag, and the negation sign.
FlagListChars == FlagLetters \cup {Chr("x"), Chr("-")}

FlagLists == StringsUpTo(FlagListChars, MaxFlagListLen)

\* What closes the flag list: ')' of (?flags), or ':a)' of (?flags:e).
FlagClosers == {Str(<<")">>), Str(<<":", "a", ")">>)}

\* (?flags) or (?flags:a), followed by a literal.
FlagListPattern(l, closer) ==
    Str(<<"(", "?">>) \o l \o closer \o Str(<<"a">>)

FlagListPatterns ==
    {FlagListPattern(l, closer) : l \in FlagLists, closer \in FlagClosers}

NextFlagList == \E p \in FlagListPatterns : New(p)

SpecFlagList == InitSyntax /\ [][NextFlagList]_vars

(***************************************************************************)
(* The client compiles a pattern with a group that changes flags inside.   *)
(***************************************************************************)

\* What opens a group: a capturing group, a named capturing group, and
\* (?flags: with no flag or one flag.
GroupOpeners ==
    { Str(<<"(">>), Str(<<"(", "?", "P", "<", "n", ">">>) }
    \cup { Str(<<"(", "?">>) \o Letters(Z) \o Str(<<":">>) :
             Z \in {W \in SUBSET FlagLetters : Cardinality(W) <= 1} }

\* The flags B set, then a group in which (?X-Y) stands between two
\* literals, then the probe.
ScopedPattern(B, opener, X, Y) ==
    Setting(B) \o opener \o Str(<<"a">>) \o FlagGroup(X, Y)
        \o Str(<<"a", ")">>) \o FlagProbe

ScopedPatterns ==
    { ScopedPattern(t[1], t[2], t[3], t[4]) :
        t \in { u \in (SUBSET FlagLetters) \X GroupOpeners
                        \X (SUBSET FlagLetters) \X (SUBSET FlagLetters) :
                    u[3] \cap u[4] = {} /\ u[3] \cup u[4] # {} } }

NextScoped == \E p \in ScopedPatterns : New(p)

SpecScoped == InitSyntax /\ [][NextScoped]_vars

(***************************************************************************)
(* The client compiles a pattern built from alternations and repetitions.  *)
(***************************************************************************)

\* The depth of the deepest nesting of alternations and repetitions.
MaxDepth == 2

\* The repetition operators, greedy and ungreedy.
RepeatOps ==
    { Str(<<"?">>), Str(<<"*">>), Str(<<"+">>),
      Str(<<"?", "?">>), Str(<<"*", "?">>), Str(<<"+", "?">>) }

\* (?:e)
Grouped(e) == Str(<<"(", "?", ":">>) \o e \o Str(<<")">>)

\* The expressions nested at most n deep: the literal a, a repetition of a
\* grouped expression, an alternation of two grouped expressions.
RECURSIVE Nested(_)
Nested(n) ==
    IF n = 0 THEN {Str(<<"a">>)}
    ELSE LET S == Nested(n - 1) IN
         S \cup {Grouped(e) \o op : e \in S, op \in RepeatOps}
           \cup {Grouped(x) \o Str(<<"|">>) \o Grouped(y) : x \in S, y \in S}

NestedPatterns == Nested(MaxDepth)

NextNested == \E p \in NestedPatterns : New(p)

SpecNested == InitSyntax /\ [][NextNested]_vars

(***************************************************************************)
(* The client compiles a pattern that opens with literals and searches a   *)
(* text.                                                                   *)
(***************************************************************************)

\* The literals a pattern opens with.
PrefixHeads ==
    { Str(<<"a">>), Str(<<"a", "b">>), Str(<<"b", "a">>), Str(<<"a", "a">>) }

\* What follows them.
PrefixTails ==
    { <<>>, Str(<<"?">>), Str(<<"*">>), Str(<<"+">>), Str(<<"+", "?">>),
      Str(<<"b">>), Str(<<"b", "?">>), Str(<<"b", "*">>),
      Str(<<"|", "b">>), Str(<<"|", "a", "b">>), Str(<<"(", "b", ")">>),
      Str(<<"$">>), Str(<<"{", "0", "}">>), Str(<<"{", "2", "}">>),
      Str(<<"b", "{", "0", "}">>) }

PrefixPatterns == {h \o t : h \in PrefixHeads, t \in PrefixTails}

NextPrefix ==
    \/ \E p \in PrefixPatterns : New(p)
    \/ Find

SpecPrefix == Init /\ [][NextPrefix]_vars

(***************************************************************************)
(* The client compiles a pattern that begins with ^, or does not, and      *)
(* searches a text with line feeds from every offset the iterator reaches. *)
(***************************************************************************)

StartPatterns ==
    { Str(<<"^", "a">>), Str(<<"^", "a", "a">>), Str(<<"^", "a", "+">>),
      Str(<<"^", "a", "*">>), Str(<<"^", "+", "a">>), Str(<<"^">>),
      Str(<<"^", ".", "a">>), Str(<<"^", "a", "|", "a">>),
      Str(<<"(", "?", "s", ")", "^", ".", "a">>),
      Str(<<"(", "?", "s", ")", "^", ".", "*", "a">>),
      Str(<<"(", "?", "m", ")", "^", "a">>),
      Str(<<"(", "?", "m", "s", ")", "^", ".", "a">>),
      Str(<<"(", "?", "m", "s", ")", "^", ".", "+", "a">>),
      Str(<<"a">>), Str(<<"a", "a">>), Str(<<"(", "?", "s", ")", ".", "a">>) }

NextStart ==
    \/ \E p \in StartPatterns : New(p)
    \/ Find
    \/ FindIter
    \/ FindMatchesNext

SpecStart == InitAnchor /\ [][NextStart]_vars

(***************************************************************************)
(* Two tasks run the VM against the one compiled program, their steps      *)
(* interleaved.                                                            *)
(***************************************************************************)

ConcurrentPatterns ==
    { Str(<<"a", "+">>), Str(<<"(", "a", "|", "a", "b", ")", "(", "b", "?", ")">>),
      Str(<<"a", "|", "b", "*", "?">>) }

PlainTexts == {Utf8(s) : s \in StringsUpTo({Chr("a"), Chr("b")}, MaxTextLen)}

MatchKinds == {"Exists", "Submatches"}

InitPlain == InitWith(PlainTexts)

\* The task t calls vm::run on the program of re and the text: Nfa::run up
\* to the first test of its loop.
ExecStart(t, which) ==
    /\ re.ok
    /\ execs[t].status = "idle"
    /\ execs' = [execs EXCEPT ![t] =
                    [status |-> "running", which |-> which,
                     run |-> Nfa_start(which, re.p, text, 0, Len(text))]]
    /\ UNCHANGED <<pattern, re, text, matched, found, caps, iter, out, replaced, parser>>

\* A faulty variant of ExecStep, which the independence of the executions
\* is tested against: the two tasks share the queue of current threads, the
\* step of t works on the one the other task left.
ExecStepSharedQueue(t) ==
    /\ execs[t].status = "running"
    /\ \E u \in Tasks \ {t} :
       \E r \in {IF execs[u].status = "running"
                 THEN RunIter(execs[t].run.nfa,
                              [execs[t].run.s EXCEPT !.clist = execs[u].run.s.clist])
                 ELSE RunIter(execs[t].run.nfa, execs[t].run.s)} :
           execs' = [execs EXCEPT ![t].run = r,
                                  ![t].status = IF r.done THEN "done" ELSE "running"]
    /\ UNCHANGED <<pattern, re, text, matched, found, caps, iter, out, replaced, parser>>

\* The task t makes one iteration of the loop of Nfa::run, or leaves the
\* loop with the result; it reads the program and writes its own queues,
\* capture array and reader.
ExecStep(t) ==
    /\ execs[t].status = "running"
    /\ \E r \in {RunIter(execs[t].run.nfa, execs[t].run.s)} :
           execs' = [execs EXCEPT ![t].run = r,
                                  ![t].status = IF r.done THEN "done" ELSE "running"]
    /\ UNCHANGED <<pattern, re, text, matched, found, caps, iter, out, replaced, parser>>

NextConcurrent ==
    \/ \E p \in ConcurrentPatterns : New(p)
    \/ \E t \in Tasks : \E which \in MatchKinds : ExecStart(t, which)
    \/ \E t \in Tasks : ExecStep(t)

SpecConcurrent == InitPlain /\ [][NextConcurrent]_vars

(***************************************************************************)
(* The client compiles a pattern and splits a text into a limited number   *)
(* of pieces.                                                              *)
(***************************************************************************)

\* The largest limit the client hands to splitn.
MaxLimit == 3

SplitPatterns ==
    { Str(<<"b">>), Str(<<"b", "+">>), Str(<<"a", "b">>), Str(<<"a", "*">>) }

NextSplitN ==
    \/ \E p \in SplitPatterns : New(p)
    \/ \E limit \in 0..MaxLimit : SplitN(limit)
    \/ RegexpSplitsNNext

SpecSplitN == InitPlain /\ [][NextSplitN]_vars

(***************************************************************************)
(* The client compiles a pattern and replaces a limited number of its      *)
(* matches in a text.                                                      *)
(***************************************************************************)

\* The replacement the client uses: the text "x".
PlainTemplate == Utf8(Str(<<"x">>))

NextReplaceN ==
    \/ \E p \in SplitPatterns : New(p)
    \/ Replace(PlainTemplate)
    \/ ReplaceAll(PlainTemplate)
    \/ \E limit \in 0..MaxLimit : ReplaceN(limit, PlainTemplate)

SpecReplaceN == Init /\ [][NextReplaceN]_vars

(***************************************************************************)
(* The parser reads counted repetitions whose bounds lie around            *)
(* MAX_REPEAT, one iteration of the loop of Parser::parse at a time.       *)
(***************************************************************************)

\* How far past MAX_REPEAT the written bounds go.
MaxExcess == 1

\* The bounds written: the smallest ones and those around MAX_REPEAT.
LimitCounts == {0, 1} \cup ((MAX_REPEAT - 1)..(MAX_REPEAT + MaxExcess))

\* e{n}, e{n,} and e{n,m} for every pair of bounds, m < n included.
LimitPatterns ==
    UNION { {Exactly(e, n, g), AtLeast(e, n, g)} \cup
            {Between(e, n, m, g) : m \in LimitCounts} :
            e \in Operands, n \in LimitCounts, g \in Suffixes }

\* parse::parse(s), up to the loop of Parser::parse.
ParserNew(s) ==
    /\ parser = NoParser
    /\ pattern' = s
    /\ parser' = [chars |-> s, chari |-> 0, stack |-> <<>>,
                  flags |-> FLAG_EMPTY, caps |-> 0, err |-> "", ret |-> NoAst]
    /\ UNCHANGED <<re, text, matched, found, caps, iter, out, replaced, execs>>

\* One iteration of the loop of Parser::parse.
ParserStep ==
    /\ parser # NoParser
    /\ parser.err = ""
    /\ parser.chari < Len(parser.chars)
    /\ parser' = ParseStep(parser)
    /\ UNCHANGED <<pattern, re, text, matched, found, caps, iter, out, replaced,
                   execs>>

NextLimit ==
    \/ \E p \in LimitPatterns : ParserNew(p)
    \/ ParserStep

SpecLimit == InitSyntax /\ [][NextLimit]_vars

(***************************************************************************)
(* The client compiles a bracketed class of characters and ranges and      *)
(* tests a text of one character.                                          *)
(***************************************************************************)

\* The characters written in the classes, in ascending order.
RangeChars == {Chr("a"), Chr("b"), Chr("c"), Chr("d")}

\* The items: a character, or a range lo-hi.
RangeItems ==
    { <<c>> : c \in RangeChars }
        \cup { r \in { <<lo, Chr("-"), hi>> : lo \in RangeChars, hi \in RangeChars } :
                   r[1] < r[3] }

\* The items of a class, in every order.
RangeLists == StringsUpTo(RangeItems, MaxClassItems) \ {<<>>}

RangePatterns ==
    {ClassPattern(negated, items) : negated \in BOOLEAN, items \in RangeLists}

\* The texts: one character of the classes.
RangeTexts == {Utf8(<<c>>) : c \in RangeChars}

InitRange == InitWith(RangeTexts)

NextRange ==
    \/ \E p \in RangePatterns : New(p)
    \/ IsMatch

SpecRange == InitRange /\ [][NextRange]_vars

(***************************************************************************)
(* The client compiles a case-insensitive class of one character or one    *)
(* range and tests a text of one character.                                *)
(***************************************************************************)

\* The characters written in the classes and the texts, in ascending order:
\* letters of both cases and characters before, between and after them.
CaseChars == {Chr("="), Chr("A"), Chr("Z"), Chr("_"), Chr("a"), Chr("z")}

\* The items: a character, or a range lo-hi.
CaseItems ==
    { <<c>> : c \in CaseChars }
        \cup { r \in { <<lo, Chr("-"), hi>> : lo \in CaseChars, hi \in CaseChars } :
                   r[1] < r[3] }

\* (?i)[item] or (?i)[^item]
CasePatterns ==
    { Str(<<"(", "?", "i", ")">>) \o ClassPattern(negated, <<item>>) :
        negated \in BOOLEAN, item \in CaseItems }

\* The texts: one character.
CaseTexts == {Utf8(<<c>>) : c \in CaseChars}

InitCase == InitWith(CaseTexts)

NextCase ==
    \/ \E p \in CasePatterns : New(p)
    \/ IsMatch

SpecCase == InitCase /\ [][NextCase]_vars

(***************************************************************************)
(* The client compiles a pattern that opens with literals and searches a   *)
(* text by every match kind and from every offset the iterator reaches.    *)
(***************************************************************************)

NextSkip ==
    \/ \E p \in PrefixPatterns : New(p)
    \/ IsMatch
    \/ GetCaptures
    \/ FindIter
    \/ FindMatchesNext

SpecSkip == Init /\ [][NextSkip]_vars

(***************************************************************************)
(* One task runs the VM one step at a time: the first half of an           *)
(* iteration of the loop of Nfa::run, then the step of each thread of the  *)
(* current queue, then the swap of the queues.                             *)
(***************************************************************************)

\* Patterns with cycles of instructions that read nothing, alternations,
\* captures, and every instruction that reads a character.
VmPatterns ==
    { Str(<<"(", "a", "*", ")", "*">>), Str(<<"(", "a", "*", ")", "+">>),
      Str(<<"(", "?", ":", "a", "?", "|", "b", "*", ")", "*", "b">>),
      Str(<<"(", "a", "|", "a", "b", ")", "(", "b", "?", ")">>),
      Str(<<"a", "|", "a", "b">>), Str(<<"a", "*", "?">>),
      Str(<<"a", "b">>), Str(<<".", "[", "a", "]", "b">>),
      Str(<<"(", "a", ")", "$">>), Str(<<"^", "b", "+">>) }

VmKinds == {"Exists", "Location", "Submatches"}

\* The task that runs the VM.
VmTask == "t1"

\* The task calls vm::run on the program of re, the text and a start offset:
\* Nfa::run up to the first test of its loop.  phase is where the task is in
\* an iteration, i the index of the inner loop, iters the iterations begun
\* (the passes of the test of the loop) and stepped the pcs of the threads
\* stepped in this iteration.
VmStart(which, start) ==
    /\ re.ok
    /\ start <= Len(text)
    /\ execs[VmTask].status = "idle"
    /\ execs' = [execs EXCEPT ![VmTask] =
                    [status |-> "running", which |-> which, start |-> start,
                     run |-> Nfa_start(which, re.p, text, start, Len(text)),
                     phase |-> "top", i |-> 0, iters |-> 0, stepped |-> <<>>]]
    /\ UNCHANGED <<pattern, re, text, matched, found, caps, iter, out, replaced, parser>>

\* The test of the loop of Nfa::run, the jump to the prefix, the thread at
\* pc 0 and the advance of the reader; or the end of the run.
RunEnter(nfa, s) ==
    LET k == PrefixSkip(nfa, s) IN
    CASE nfa.chars.fail -> RunStop(RunFailed)
      [] ~nfa.chars.fail /\ (nfa.ic > nfa.end \/ (s.clist.size = 0 /\ s.matched)) ->
            RunStop(RunDone(nfa, s))
      [] OTHER ->
            IF ~k.found THEN RunStop(RunDone(nfa, s))
            ELSE IF RunAdded(nfa, s, k).fail THEN RunStop(RunFailed)
            ELSE [done |-> FALSE, nfa |-> RunAdded(nfa, s, k).nfa,
                  s |-> RunAdded(nfa, s, k).s]

VmEnter ==
    /\ execs[VmTask].status = "running"
    /\ execs[VmTask].phase = "top"
    /\ \E r \in {RunEnter(execs[VmTask].run.nfa, execs[VmTask].run.s)} :
           execs' = [execs EXCEPT ![VmTask].run = r,
                                  ![VmTask].status = IF r.done THEN "done" ELSE "running",
                                  ![VmTask].phase = "step",
                                  ![VmTask].i = 0,
                                  ![VmTask].stepped = <<>>,
                                  ![VmTask].iters =
                                      IF execs[VmTask].run.nfa.ic
                                            <= execs[VmTask].run.nfa.end
                                      THEN @ + 1 ELSE @]
    /\ UNCHANGED <<pattern, re, text, matched, found, caps, iter, out, replaced, parser>>

\* One iteration of the inner loop: the step of the thread at the index i.
VmThread ==
    /\ execs[VmTask].status = "running"
    /\ execs[VmTask].phase = "step"
    /\ ~execs[VmTask].run.s.early
    /\ execs[VmTask].i < execs[VmTask].run.s.clist.size
    /\ execs' = [execs EXCEPT
                    ![VmTask].run.s = StepThread(execs[VmTask].run.nfa, @, execs[VmTask].i),
                    ![VmTask].stepped =
                        Append(@, execs[VmTask].run.s.clist.queue[execs[VmTask].i + 1].pc),
                    ![VmTask].i = @ + 1]
    /\ UNCHANGED <<pattern, re, text, matched, found, caps, iter, out, replaced, parser>>

\* The end of the inner loop: the early return, or the swap of the queues.
VmSwap ==
    /\ execs[VmTask].status = "running"
    /\ execs[VmTask].phase = "step"
    /\ execs[VmTask].run.s.early \/ execs[VmTask].i >= execs[VmTask].run.s.clist.size
    /\ \E r \in {RunSwap(execs[VmTask].run.nfa, execs[VmTask].run.s)} :
           execs' = [execs EXCEPT ![VmTask].run = r,
                                  ![VmTask].status = IF r.done THEN "done" ELSE "running",
                                  ![VmTask].phase = "top"]
    /\ UNCHANGED <<pattern, re, text, matched, found, caps, iter, out, replaced, parser>>

NextVm ==
    \/ \E p \in VmPatterns : New(p)
    \/ \E which \in VmKinds : \E start \in 0..MaxTextLen : VmStart(which, start)
    \/ VmEnter
    \/ VmThread
    \/ VmSwap

SpecVm == InitPlain /\ [][NextVm]_vars

(***************************************************************************)
(* The task runs the VM one step at a time on thread queues whose arrays   *)
(* were not initialised: they hold whatever the memory held.               *)
(***************************************************************************)

SparsePatterns ==
    { Str(<<"(", "a", "*", ")", "*">>),
      Str(<<"(", "a", "|", "a", "b", ")", "(", "b", "?", ")">>),
      Str(<<"a", "*", "?", "b">>) }

\* What the memory held: the seeds of the values of the arrays.
JunkSeeds == {0, 1, 2}

\* Threads::new of the generated matcher: the size is 0, the entries of
\* sparse and the pcs of the queue are those of the seed j.
Threads_uninit(num_insts, num_caps, j) ==
    [queue  |-> [i \in 1..num_insts |->
                    [pc |-> (i * j) % num_insts,
                     groups |-> [k \in 1..(num_caps * 2) |-> None]]],
     sparse |-> [i \in 1..num_insts |-> (i + 2 * j) % (num_insts + j)],
     size   |-> 0]

\* The task calls the VM: Nfa::run up to the first test of its loop, on
\* queues that were not initialised.
VmStartUninit(which, start, j) ==
    /\ re.ok
    /\ start <= Len(text)
    /\ execs[VmTask].status = "idle"
    /\ \E r \in {Nfa_start(which, re.p, text, start, Len(text))} :
       \E q \in {Threads_uninit(Len(re.p.insts), which_num_caps(which, re.p), j)} :
           execs' = [execs EXCEPT ![VmTask] =
                        [status |-> "running", which |-> which, start |-> start,
                         run |-> [r EXCEPT !.s.clist = q, !.s.nlist = q],
                         phase |-> "top", i |-> 0, iters |-> 0, stepped |-> <<>>]]
    /\ UNCHANGED <<pattern, re, text, matched, found, caps, iter, out, replaced, parser>>

NextSparse ==
    \/ \E p \in SparsePatterns : New(p)
    \/ \E which \in VmKinds : \E start \in 0..MaxTextLen : \E j \in JunkSeeds :
           VmStartUninit(which, start, j)
    \/ VmEnter
    \/ VmThread
    \/ VmSwap

SpecSparse == InitPlain /\ [][NextSparse]_vars

(***************************************************************************)
(* The task runs the VM one step at a time on a pattern with word          *)
(* boundaries and a text of word and other characters.                     *)
(***************************************************************************)

WordPatterns ==
    { Str(<<"\\", "b">>), Str(<<"\\", "B">>),
      Str(<<".", "\\", "b">>), Str(<<"\\", "B", ".">>),
      Str(<<"\\", "b", ".", "\\", "B", ".">>) }

WordTextChars == {Chr("_"), Chr("-"), Chr("e'")}

WordTexts == {Utf8(s) : s \in StringsUpTo(WordTextChars, MaxTextLen)}

InitWord == InitWith(WordTexts)

NextWord ==
    \/ \E p \in WordPatterns : New(p)
    \/ \E which \in VmKinds : \E start \in 0..MaxTextLen : VmStart(which, start)
    \/ VmEnter
    \/ VmThread
    \/ VmSwap

SpecWord == InitWord /\ [][NextWord]_vars

(***************************************************************************)
(* The task runs the generated matcher and the dynamic VM on the same      *)
(* program, text and start offset.                                         *)
(***************************************************************************)

NativePatterns ==
    { Str(<<"(", "a", "*", ")", "*">>),
      Str(<<"(", "a", "|", "a", "b", ")", "(", "b", "?", ")">>),
      Str(<<"a", "*", "?", "b">>), Str(<<"a", "b">>),
      Str(<<"(", "?", "i", ")", "A", "\\", "b">>),
      Str(<<"^", ".", "$">>),
      Str(<<"[", "a", "-", "b", "]">>), Str(<<"[", "^", "a", "]">>),
      Str(<<"[", "b", "a", "]", "+">>),
      Str(<<"(", "[", "d", "b", "a", "-", "c", "]", ")">>) }

NativeTexts == {Utf8(s) : s \in StringsUpTo({Chr("a"), Chr("b"), Chr("c")}, MaxTextLen)}

InitNative == InitWith(NativeTexts)

\* The task runs the dynamic VM and the generated matcher of the program of
\* re on the text from the offset start.
ExecBoth(which, start) ==
    /\ re.ok
    /\ start <= Len(text)
    /\ execs[VmTask].status = "idle"
    /\ execs' = [execs EXCEPT ![VmTask] =
                    [status |-> "done", which |-> which, start |-> start,
                     dynamic |-> Nfa_run(which, re.p, text, start, Len(text)),
                     native |-> native_exec(which, re.p, text, start, Len(text))]]
    /\ UNCHANGED <<pattern, re, text, matched, found, caps, iter, out, replaced, parser>>

NextNative ==
    \/ \E p \in NativePatterns : New(p)
    \/ \E which \in VmKinds : \E start \in 0..MaxTextLen : ExecBoth(which, start)

SpecNative == InitNative /\ [][NextNative]_vars

(***************************************************************************)
(* The task runs the VM one step at a time on a pattern whose captures     *)
(* close behind an instruction that reads a character.                     *)
(***************************************************************************)

ReadPatterns ==
    { Str(<<"(", ".", ")">>), Str(<<"a", "(", ".", ")">>),
      Str(<<"(", "?", "s", ")", "(", ".", ")", "*">>),
      Str(<<"(", "a", ")">>), Str(<<"(", "[", "a", "]", ")", "b">>),
      Str(<<"(", "b", "|", "[", "^", "b", "]", ")", "+">>) }

NextRead ==
    \/ \E p \in ReadPatterns : New(p)
    \/ \E which \in VmKinds : \E start \in 0..MaxTextLen : VmStart(which, start)
    \/ VmEnter
    \/ VmThread
    \/ VmSwap

SpecRead == InitPlain /\ [][NextRead]_vars

(***************************************************************************)
(* The properties.                                                         *)
(***************************************************************************)

\* C1: for a pattern that compiles and a text, is_match is true iff find
\* returns a pair iff captures returns a record, and then the pair of find
\* is group 0 of captures.
C1_MatchKindsAgree ==
    (re.ok /\ matched.called /\ found.called /\ caps.called) =>
        /\ ~matched.fail /\ ~found.fail /\ ~caps.fail
        /\ matched.val = (found.val # <<>>)
        /\ (found.val # <<>>) = caps.val.some
        /\ caps.val.some => found.val = Captures_pos(caps.val, 0)

\* The three calls returned a match that starts after the start of the text
\* and has a capture group.
C1_Witness ==
    /\ re.ok /\ matched.called /\ found.called /\ caps.called
    /\ matched.val
    /\ found.val # <<>> /\ found.val[1] > 0
    /\ caps.val.some /\ Len(caps.val.locs) > 2

\* The reference of C2: a backtracking search over the program from pc at
\* the offset off, which tries the first target of a Split before the
\* second and explores no pair (pc, off) twice.  b is [seen, end]: the pairs
\* explored and the end of the match found, None while none is.
TextAt(input, off) == [chars |-> CharReader_set(input, off)]

Accepts(inst, c) ==
    /\ c # None
    /\ CASE inst.op = "OneChar" ->
               char_eq(is_set(inst.flags, FLAG_NOCASE), c, inst.c)
         [] inst.op = "CharClass" ->
               (bsearch(inst.ranges,
                        LAMBDA rc : class_cmp(is_set(inst.flags, FLAG_NOCASE), c, rc))
                   # None) # is_set(inst.flags, FLAG_NEGATED)
         [] inst.op = "Any" -> is_set(inst.flags, FLAG_DOTNL) \/ c # 10
         [] OTHER -> FALSE

Holds(inst, at) ==
    CASE inst.op = "EmptyBegin" ->
            is_begin(at) \/ (is_set(inst.flags, FLAG_MULTI) /\ at.chars.prev = 10)
      [] inst.op = "EmptyEnd" ->
            is_end(at) \/ (is_set(inst.flags, FLAG_MULTI) /\ at.chars.cur = 10)
      [] inst.op = "EmptyWordBoundary" ->
            is_word_boundary(at) = ~is_set(inst.flags, FLAG_NEGATED)
      [] OTHER -> TRUE

RECURSIVE Backtrack(_, _, _, _, _)
Backtrack(insts, input, pc, off, b) ==
    LET inst == insts[pc + 1]
        at   == TextAt(input, off)
        b1   == [b EXCEPT !.seen = @ \cup {<<pc, off>>}]
        op   == IF b.end # None \/ <<pc, off>> \in b.seen THEN "Skip" ELSE inst.op
    IN
    CASE op = "Skip" -> b
      [] op = "Match" -> [b1 EXCEPT !.end = off]
      [] op \in {"OneChar", "CharClass", "Any"} ->
            IF Accepts(inst, at.chars.cur)
            THEN Backtrack(insts, input, pc + 1, at.chars.next, b1) ELSE b1
      [] op \in {"EmptyBegin", "EmptyEnd", "EmptyWordBoundary", "Save"} ->
            IF Holds(inst, at) THEN Backtrack(insts, input, pc + 1, off, b1) ELSE b1
      [] op = "Jump" -> Backtrack(insts, input, inst.to, off, b1)
      [] op = "Split" ->
            Backtrack(insts, input, inst.y, off,
                      Backtrack(insts, input, inst.x, off, b1))

BacktrackFrom(insts, input, start) ==
    Backtrack(insts, input, 0, start, [seen |-> {}, end |-> None]).end

\* The match of the search from the smallest offset a search succeeds from:
\* <<s, e>>, or <<>> when none does.
LeftmostFirst(insts, input) ==
    LET starts == {s \in 0..Len(input) :
                      /\ IsCharBoundary(input, s)
                      /\ BacktrackFrom(insts, input, s) # None}
    IN  IF starts = {} THEN <<>>
        ELSE <<Position(starts), BacktrackFrom(insts, input, Position(starts))>>

\* C2: find returns the leftmost-first match: the match of the backtracking
\* search from the smallest offset a match begins at.
C2_FindLeftmostFirst ==
    (re.ok /\ found.called) =>
        ~found.fail /\ found.val = LeftmostFirst(re.p.insts, text)

\* find returned the empty match of the second alternative of a|b*? on a
\* text a longer match begins in.
C2_Witness ==
    /\ re.ok /\ found.called
    /\ re.original = Str(<<"a", "|", "b", "*", "?">>)
    /\ text = Utf8(Str(<<"b", "a">>))
    /\ found.val = <<0, 0>>

\* The VM runs the three calls made.
CallRuns ==
    (IF matched.called THEN matched.runs ELSE <<>>)
        \o (IF found.called THEN found.runs ELSE <<>>)
        \o (IF caps.called THEN caps.runs ELSE <<>>)

PairsWhole(locs) ==
    \A k \in 1..(Len(locs) \div 2) : (locs[2 * k - 1] = None) = (locs[2 * k] = None)

\* C3: the flat capture array a VM run returns has the two slots of every
\* group both set or both unset, and unflatten_capture_locations does not
\* reach its BUG failure.
C3_CapturePairsWhole ==
    \A i \in 1..Len(CallRuns) :
        /\ ~CallRuns[i].fail
        /\ PairsWhole(CallRuns[i].locs)
        /\ ~CallRuns[i].bug

\* captures returned the array of a match (a)|b in which group 1 did not
\* take part.
C3_Witness ==
    /\ re.ok /\ caps.called
    /\ Len(caps.runs) = 1
    /\ caps.runs[1].locs = <<0, 1, None, None>>

\* C4: when captures returns a record, every group whose position is set
\* has 0 <= start <= end <= len(T).
C4_CapturesInText ==
    (re.ok /\ caps.called /\ caps.val.some) =>
        \A k \in 0..((Len(caps.val.locs) \div 2) - 1) :
            Captures_pos(caps.val, k) # <<>> =>
                /\ 0 <= Captures_pos(caps.val, k)[1]
                /\ Captures_pos(caps.val, k)[1] <= Captures_pos(caps.val, k)[2]
                /\ Captures_pos(caps.val, k)[2] <= Len(text)

\* captures returned a record whose group 1 is set, not empty, and ends
\* before the match does.
C4_Witness ==
    /\ re.ok /\ caps.called /\ caps.val.some
    /\ Len(caps.val.locs) > 2
    /\ Captures_pos(caps.val, 1) # <<>>
    /\ Captures_pos(caps.val, 1)[1] < Captures_pos(caps.val, 1)[2]
    /\ Captures_pos(caps.val, 1)[2] < Captures_pos(caps.val, 0)[2]

\* The position of an item find_iter or captures_iter yielded.
ItemPos(x) == IF iter.kind = "FindMatches" THEN x ELSE Captures_pos(x, 0)

Matching == iter # NoIter /\ iter.kind \in {"FindMatches", "FindCaptures"}

\* C5: of two consecutive items (s1, e1), (s2, e2) of find_iter or of
\* captures_iter, e1 <= s2, and s2 > e1 when the second is empty.
C5_ItemsInOrder ==
    Matching =>
        \A i \in 1..(Len(out) - 1) :
            /\ ItemPos(out[i])[2] <= ItemPos(out[i + 1])[1]
            /\ ItemPos(out[i + 1])[1] = ItemPos(out[i + 1])[2]
                  => ItemPos(out[i + 1])[1] > ItemPos(out[i])[2]

\* The iterator yielded a match that is not empty and then, after the empty
\* match at its end was passed over, an empty one.
C5_Witness ==
    /\ Matching
    /\ Len(out) >= 2
    /\ ItemPos(out[1])[1] < ItemPos(out[1])[2]
    /\ ItemPos(out[2])[1] = ItemPos(out[2])[2]
    /\ ItemPos(out[2])[1] = ItemPos(out[1])[2] + 1

\* C6: the calls of next on find_iter or captures_iter eventually return
\* None.
C6_IterationEnds == Matching ~> (Matching /\ iter.status = "done")

\* The calls of next eventually stop, by returning None or by aborting.
IterationStops == Matching ~> (Matching /\ iter.status # "active")

\* C6, as a property of the iteration that has stopped: when the calls of
\* next on find_iter or captures_iter have stopped, the last of them
\* returned None.
C6_IterationEndsByNone ==
    (Matching /\ iter.status # "active") => iter.status = "done"

\* The offsets the iterator handed to the VM in its last call of next.
RunStarts == {iter.runs[i].start : i \in 1..Len(iter.runs)}

\* C7: every offset find_iter and captures_iter yield, and every start
\* offset they hand to the VM, is a UTF-8 boundary of the text.
C7_OffsetsAtBoundaries ==
    Matching =>
        /\ \A s \in RunStarts : IsCharBoundary(text, s)
        /\ \A i \in 1..Len(out) :
              /\ IsCharBoundary(text, ItemPos(out[i])[1])
              /\ IsCharBoundary(text, ItemPos(out[i])[2])

\* The matches of find_iter from the iterator it on, until it returns None
\* or aborts.
RECURSIVE MatchesFrom(_, _, _)
MatchesFrom(r, t, it) ==
    LET n == FindMatches_next(r, t, it) IN
    IF n.fail \/ n.item = <<>> THEN <<>>
    ELSE <<<<n.item[1], n.item[2]>>>> \o MatchesFrom(r, t, n.it)

\* The pieces and the matches one after the other, the pieces first.
RECURSIVE Alternate(_, _, _)
Alternate(t, pieces, ms) ==
    IF pieces = <<>> /\ ms = <<>> THEN <<>>
    ELSE (IF pieces = <<>> THEN <<>> ELSE Head(pieces))
         \o (IF ms = <<>> THEN <<>> ELSE slice_bytes(t, Head(ms)[1], Head(ms)[2]))
         \o Alternate(t, IF pieces = <<>> THEN <<>> ELSE Tail(pieces),
                         IF ms = <<>> THEN <<>> ELSE Tail(ms))

\* C8: once split has yielded its pieces, they are the substrings between
\* the matches of find_iter: pieces and matches alternately make the text.
C8_SplitRebuildsText ==
    (iter # NoIter /\ iter.kind = "RegexpSplits" /\ iter.status # "active") =>
        /\ iter.status = "done"
        /\ Len(out) <= Len(MatchesFrom(re, text, find_iter)) + 1
        /\ Alternate(text, out, MatchesFrom(re, text, find_iter)) = text

\* C9: replace_all(P, T, "$0") is T.
C9_ReplaceRoundTrip ==
    (re.ok /\ replaced.called /\ replaced.rep = Utf8(Str(<<"$", "0">>))) =>
        ~replaced.fail /\ replaced.val = text

ErrorKinds == {"BadSyntax", "Bug"}

\* C11: Regexp::new returns a handle or a structured error for every
\* pattern: the call never aborts.
C11_CompileTotal ==
    re # NoRegexp =>
        \/ re.ok /\ ~re.p.bug
        \/ ~re.ok /\ re.kind \in ErrorKinds

\* What find returns on the pattern written out as d: the empty match at 0
\* for the empty concatenation, which matches exactly the empty string.
FindWritten(d, t) ==
    IF d = <<>> THEN <<0, 0>> ELSE find(Regexp_new(d), t).val

\* n copies of e, n copies followed by e*, n copies followed by m - n copies
\* of e?, the repetitions with the suffix g.
ExactlyWritten(e, n) == Copies(e, n)
AtLeastWritten(e, n, g) == Copies(e, n) \o e \o Str(<<"*">>) \o g
BetweenWritten(e, n, m, g) == Copies(e, n) \o Copies(e \o Str(<<"?">>) \o g, m - n)

\* C12: e{n} matches what n copies of e match, e{n,} what n copies followed
\* by e* match, e{n,m} what n copies followed by m - n copies of e? match,
\* for every n >= 0.
C12_CountedDesugars ==
    (re.ok /\ found.called) =>
        /\ ~found.fail
        /\ \A e \in Operands, n \in 0..MaxCount, g \in Suffixes :
              /\ pattern = Exactly(e, n, g) =>
                    found.val = FindWritten(ExactlyWritten(e, n), text)
              /\ pattern = AtLeast(e, n, g) =>
                    found.val = FindWritten(AtLeastWritten(e, n, g), text)
              /\ \A m \in n..MaxCount :
                    pattern = Between(e, n, m, g) =>
                        found.val = FindWritten(BetweenWritten(e, n, m, g), text)

\* The flags the probe at the end of the program insts was parsed under:
\* its instructions are OneChar, Any, EmptyEnd, Split, OneChar, Save(1),
\* Match, and the Split of a greedy a? prefers the instruction after it.
ProbedFlags(insts) ==
    LET n == Len(insts) IN
    {Chr("i") : x \in {1} \cap {IF is_set(insts[n - 6].flags, FLAG_NOCASE) THEN 1 ELSE 0}}
    \cup {Chr("s") : x \in {1} \cap {IF is_set(insts[n - 5].flags, FLAG_DOTNL) THEN 1 ELSE 0}}
    \cup {Chr("m") : x \in {1} \cap {IF is_set(insts[n - 4].flags, FLAG_MULTI) THEN 1 ELSE 0}}
    \cup {Chr("U") : x \in {1} \cap {IF insts[n - 3].x # n - 3 THEN 1 ELSE 0}}

\* C13: the group (?X-Y) sets the flags of X, clears the flags of Y and
\* leaves every other flag as it was.
C13_FlagGroupSetsAndClears ==
    re.ok =>
        \A B \in SUBSET FlagLetters, X \in SUBSET FlagLetters,
           Y \in SUBSET FlagLetters :
            (X \cap Y = {} /\ X \cup Y # {}
                /\ pattern = Setting(B) \o FlagGroup(X, Y) \o FlagProbe)
            => ProbedFlags(re.p.insts) = (B \cup X) \ Y

\* The character c lies in the item of a class: c itself, the characters
\* that are no ASCII word characters for \W, a to z for [:lower:].
InItem(c, item) ==
    CASE item = Str(<<"\\", "W">>) -> ~is_word(c)
      [] Len(item) = 1 -> c = item[1]
      [] OTHER -> c >= Chr("a") /\ c <= Chr("z")

\* The class accepts c: c lies in one of its items, in none when negated.
ClassAccepts(c, negated, items) ==
    (\E i \in 1..Len(items) : InItem(c, items[i])) # negated

\* The first character of t at or after the offset i that the class
\* accepts, as the pair of its offsets; <<>> when there is none.
RECURSIVE FirstAccepted(_, _, _, _)
FirstAccepted(t, i, negated, items) ==
    IF i >= Len(t) THEN <<>>
    ELSE IF ClassAccepts(char_range_at(t, i).ch, negated, items)
         THEN <<i, char_range_at(t, i).next>>
         ELSE FirstAccepted(t, char_range_at(t, i).next, negated, items)

\* C14: a bracketed class matches exactly one character: a character of the
\* union of its ranges and nested classes, of none of them when it starts
\* with ^; it never matches the empty string.
C14_ClassMatchesOneChar ==
    (re.ok /\ found.called) =>
        /\ ~found.fail
        /\ \A negated \in BOOLEAN, items \in ItemLists :
              pattern = ClassPattern(negated, items) =>
                  found.val = FirstAccepted(text, 0, negated, items)

\* The ranges are sorted by lo and fully merged: each starts more than one
\* above the end of the range before it.
Merged(ranges) ==
    \A i \in 1..(Len(ranges) - 1) : ranges[i + 1][1] > ranges[i][2] + 1

\* C15: the ranges of every CharClass instruction are sorted ascending by
\* lo and fully merged: lo[i+1] > hi[i] + 1.
C15_RangesMerged ==
    re.ok =>
        \A i \in 1..Len(re.p.insts) :
            re.p.insts[i].op = "CharClass" => Merged(re.p.insts[i].ranges)

\* ^ and $ against the whole text t (of one-byte characters): ^ holds at
\* the offset 0, $ at the offset len(t), and with the flag m ^ also directly
\* after a line feed and $ directly before one.
BeginHolds(t, i, m) == i = 0 \/ (m /\ t[i] = Chr("LF"))
EndHolds(t, j, m) == j = Len(t) \/ (m /\ t[j + 1] = Chr("LF"))

\* The pattern of the form f matches t from the offset i.
AnchorMatches(f, t, i) ==
    /\ f.b => BeginHolds(t, i, f.m)
    /\ f.a => (i < Len(t) /\ t[i + 1] = Chr("a"))
    /\ f.e => ((f.a => i < Len(t))
                  /\ EndHolds(t, IF f.a THEN i + 1 ELSE i, f.m))

\* The matches of the form f in t from the offset i on, in order.
RECURSIVE AnchorMatchesFrom(_, _, _)
AnchorMatchesFrom(f, t, i) ==
    IF i > Len(t) THEN <<>>
    ELSE (IF AnchorMatches(f, t, i)
          THEN << <<i, IF f.a THEN i + 1 ELSE i>> >> ELSE <<>>)
         \o AnchorMatchesFrom(f, t, i + 1)

\* The positions of the items the iterator yielded.
Positions == [i \in 1..Len(out) |-> ItemPos(out[i])]

\* The text t from the offset last on with each of the matches ms replaced
\* by rep.
RECURSIVE Rebuilt(_, _, _, _)
Rebuilt(t, ms, last, rep) ==
    IF ms = <<>> THEN SubSeq(t, last + 1, Len(t))
    ELSE SubSeq(t, last + 1, Head(ms)[1]) \o rep
            \o Rebuilt(t, Tail(ms), Head(ms)[2], rep)

\* C16: anchors are evaluated against the whole text also when the search
\* starts at an offset > 0: find_iter and captures_iter yield, and
\* replace_all replaces, exactly the matches at which ^ and $ hold in the
\* whole text.
C16_AnchorsAgainstWholeText ==
    \A f \in AnchorForms :
        (re.ok /\ pattern = AnchorPattern(f)) =>
            /\ (Matching /\ iter.status # "active") =>
                  /\ iter.status = "done"
                  /\ Positions = AnchorMatchesFrom(f, text, 0)
            /\ replaced.called =>
                  /\ ~replaced.fail
                  /\ replaced.val =
                        Rebuilt(text, AnchorMatchesFrom(f, text, 0), 0,
                                AnchorTemplate)

\* The iteration of ^a over "aa" ended: it yielded the first a only, the
\* search for the second having started at the offset 1.
C16_Witness ==
    /\ Matching /\ iter.status = "done"
    /\ pattern = Str(<<"^", "a">>)
    /\ text = Utf8(Str(<<"a", "a">>))
    /\ Positions = << <<0, 1>> >>
    /\ \E i \in 1..Len(iter.runs) : iter.runs[i].start = 1

\* The character of p at the index i (1-based), None outside p.
CharAt(p, i) == IF i >= 1 /\ i <= Len(p) THEN p[i] ELSE None

\* The length of the repetition operator p holds at the index i: 1 for ?,
\* * and +, the length up to the closing brace for a counted repetition,
\* 0 when there is no operator at i.
RepeatLen(p, i) ==
    IF CharAt(p, i) \in {Chr("?"), Chr("*"), Chr("+")} THEN 1
    ELSE IF CharAt(p, i) = Chr("{") /\ \E j \in i..Len(p) : p[j] = Chr("}")
    THEN (CHOOSE j \in i..Len(p) :
              p[j] = Chr("}") /\ \A k \in i..(j - 1) : p[k] # Chr("}")) - i + 1
    ELSE 0

\* A repetition operator of p has no operand: it stands at the start of the
\* pattern, directly after '(' or '|' (a '?' after '(' opens a flag group
\* and is no repetition), or directly after the anchor ^.
NoOperand(p) ==
    \E i \in 1..Len(p) :
        /\ RepeatLen(p, i) > 0
        /\ \/ i = 1
           \/ CharAt(p, i - 1) \in {Chr("|"), Chr("^")}
           \/ CharAt(p, i - 1) = Chr("(") /\ p[i] # Chr("?")

\* C17: a repetition operator with no operand before it makes compile
\* return an error of kind BadSyntax.
C17_NoOperandIsBadSyntax ==
    (re # NoRegexp /\ NoOperand(pattern)) =>
        ~re.ok /\ re.kind = "BadSyntax"


\* The index just after the repetition operator p holds at the index i and
\* after its ungreedy suffix '?' when one follows.
AfterRepeat(p, i) ==
    LET s == i + RepeatLen(p, i) IN
    IF CharAt(p, s) = Chr("?") THEN s + 1 ELSE s

\* A repetition operator of p that has an operand (a literal or a closed
\* group before it) is immediately followed, after its optional ungreedy
\* suffix, by another repetition operator.
DoubleRepeat(p) ==
    \E i \in 2..Len(p) :
        /\ RepeatLen(p, i) > 0
        /\ CharAt(p, i - 1) \in {Chr("a"), Chr(")")}
        /\ RepeatLen(p, AfterRepeat(p, i)) > 0

\* C18: a pattern in which a repetition operator, with or without its
\* ungreedy suffix, is immediately followed by another repetition operator
\* makes compile return an error of kind BadSyntax.
C18_DoubleRepeatIsBadSyntax ==
    (re # NoRegexp /\ DoubleRepeat(pattern)) =>
        ~re.ok /\ re.kind = "BadSyntax"


\* The flag list l is not valid: it is empty, holds a letter that is no
\* flag, holds a second '-', or holds no flag after its '-'.
InvalidFlagList(l) ==
    \/ l = <<>>
    \/ \E k \in 1..Len(l) : l[k] \notin FlagLetters \cup {Chr("-")}
    \/ Cardinality({k \in 1..Len(l) : l[k] = Chr("-")}) >= 2
    \/ l # <<>> /\ l[Len(l)] = Chr("-")

\* C19: a flag group (?flags) or (?flags:e) whose flag list is empty, holds
\* a letter other than i, m, s, U, holds a second '-', or holds no flag
\* after its '-' makes compile return an error of kind BadSyntax.
C19_FlagGroupValidated ==
    \A l \in FlagLists : \A closer \in FlagClosers :
        (re # NoRegexp /\ pattern = FlagListPattern(l, closer)
            /\ InvalidFlagList(l)) =>
            ~re.ok /\ re.kind = "BadSyntax"


\* The sequence s starts with the sequence q.
StartsWith(s, q) == Len(q) <= Len(s) /\ SubSeq(s, 1, Len(q)) = q

\* C20: flag changes are scoped to their group: after the ')' that closes a
\* group, capturing or not, the active flags are those that were active at
\* its '(', whatever (?flags) was written inside the group.
C20_FlagsScopedToGroup ==
    \A B \in SUBSET FlagLetters : \A opener \in GroupOpeners :
        (/\ re # NoRegexp
         /\ pattern \in ScopedPatterns
         /\ StartsWith(pattern, Setting(B) \o opener \o Str(<<"a">>)))
        => re.ok /\ ProbedFlags(re.p.insts) = B

\* A capturing group that sets i inside was compiled: the literal after
\* (?i) in the group ignores case, the probe after the ')' does not.
C20_Witness ==
    /\ pattern = ScopedPattern({}, Str(<<"(">>), {Chr("i")}, {})
    /\ re.ok
    /\ \E k \in 1..Len(re.p.insts) :
           /\ re.p.insts[k].op = "OneChar"
           /\ is_set(re.p.insts[k].flags, FLAG_NOCASE)
    /\ ProbedFlags(re.p.insts) = {}


\* The target t of a jump is patched and lies in the program insts.
ValidTarget(insts, t) == t # 0 /\ t < Len(insts)

\* C21: in a compiled program every Jump and every Split has been patched,
\* no placeholder target 0 is left, and targets a pc strictly less than the
\* number of instructions; set_split and set_jump never fail.
C21_JumpsPatchedAndValid ==
    (re # NoRegexp /\ re.ok) =>
        /\ ~re.p.bug
        /\ \A i \in 1..Len(re.p.insts) :
               LET inst == re.p.insts[i] IN
               /\ inst.op = "Jump" => ValidTarget(re.p.insts, inst.to)
               /\ inst.op = "Split" =>
                      /\ ValidTarget(re.p.insts, inst.x)
                      /\ ValidTarget(re.p.insts, inst.y)

\* An alternation of a repetition and a literal was compiled: its program
\* holds the Jump of the alternation and of the repetition, and two Splits.
C21_Witness ==
    /\ pattern = Grouped(Grouped(Str(<<"a">>)) \o Str(<<"*">>))
                     \o Str(<<"|">>) \o Grouped(Str(<<"a">>))
    /\ re.ok
    /\ Cardinality({i \in 1..Len(re.p.insts) : re.p.insts[i].op = "Jump"}) = 2
    /\ Cardinality({i \in 1..Len(re.p.insts) : re.p.insts[i].op = "Split"}) = 2


RunStepEvery(nfa, s, k) ==
    LET st    == IF s.clist.size = 0 \/ ~s.matched
                 THEN add(k.nfa, [list |-> s.clist, groups |-> s.groups], 0)
                 ELSE [list |-> s.clist, groups |-> s.groups]
        chars == CharReader_advance(nfa.input, k.nfa.chars)
        nfa2  == [k.nfa EXCEPT !.ic = k.s.next_ic, !.chars = chars]
    IN  CASE ~k.found -> RunStop(RunDone(nfa, s))
          [] k.found /\ (k.nfa.chars.fail \/ chars.fail) -> RunStop(RunFailed)
          [] OTHER ->
                RunSwap(nfa2, StepLoop(nfa2, [s EXCEPT !.clist = st.list,
                                                       !.groups = st.groups,
                                                       !.next_ic = chars.ret], 0))

RunIterEvery(nfa, s) ==
    CASE nfa.chars.fail -> RunStop(RunFailed)
      [] ~nfa.chars.fail /\ (nfa.ic > nfa.end \/ (s.clist.size = 0 /\ s.matched)) ->
            RunStop(RunDone(nfa, s))
      [] OTHER -> RunStepEvery(nfa, s, PrefixSkip(nfa, s))

RECURSIVE RunLoopEvery(_)
RunLoopEvery(r) == IF r.done THEN r.res ELSE RunLoopEvery(RunIterEvery(r.nfa, r.s))

Nfa_runEvery(which, prog, input, start, end) ==
    RunLoopEvery(Nfa_start(which, prog, input, start, end))

\* The runs of the VM made by find and by the last call of the iterator.
SearchRuns ==
    (IF found.called THEN found.runs ELSE <<>>)
        \o (IF iter # NoIter THEN iter.runs ELSE <<>>)

\* The program begins with ^ outside multi-line mode.
BeginsAnchored(insts) ==
    insts[2].op = "EmptyBegin" /\ ~is_set(insts[2].flags, FLAG_MULTI)

\* C23: the VM, which for a program that begins with ^ outside multi-line
\* mode adds the start state only when its queue is empty, returns for every
\* text and start offset what the VM that adds the start state at every
\* position until a match is recorded returns; for every other program the
\* two VMs are the same.
C23_AnchorOptimisationEquivalent ==
    re.ok =>
        \A i \in 1..Len(SearchRuns) :
            LET r == SearchRuns[i]
                e == Nfa_runEvery(r.which, re.p, text, r.start, Len(text))
            IN  r.fail = e.fail /\ r.locs = e.locs

\* ^aa was searched in aa from the offset 0: a thread is in the queue at the
\* offset 1, where only the other VM adds the start state, and the match is
\* the whole text.
C23_Witness ==
    /\ pattern = Str(<<"^", "a", "a">>)
    /\ text = Utf8(Str(<<"a", "a">>))
    /\ re.ok /\ BeginsAnchored(re.p.insts)
    /\ found.called /\ found.val = <<0, 2>>
    /\ Len(SearchRuns) = 1 /\ SearchRuns[1].start = 0


\* The AST with every repetition made ungreedy where it was greedy and
\* greedy where it was ungreedy: compiled, the two targets of every Split a
\* repetition emits are swapped.
RECURSIVE flip_greedy(_)
flip_greedy(ast) ==
    CASE ast.k = "Rep" ->
            Rep(flip_greedy(ast.x), ast.rep, swap(ast.greed, TRUE))
      [] ast.k = "Capture" -> Capture(ast.cap, ast.name, flip_greedy(ast.x))
      [] ast.k = "Cat" -> Cat(flip_greedy(ast.xs[1]), flip_greedy(ast.xs[2]))
      [] ast.k = "Alt" -> Alt(flip_greedy(ast.x), flip_greedy(ast.y))
      [] OTHER -> ast

\* The handle of the pattern p with its repetitions flipped.
Flipped(p) == Dynamic(p, Program_new(flip_greedy(parse(p).ret)))

\* The Splits of two programs that differ: their targets are swapped.
SwappedSplits(insts, flipped) ==
    {i \in 1..Len(insts) :
        /\ insts[i].op = "Split" /\ flipped[i].op = "Split"
        /\ insts[i].x # insts[i].y
        /\ flipped[i].x = insts[i].y /\ flipped[i].y = insts[i].x}

\* C24: is_match gives the same answer for a pattern and for the pattern
\* with the targets of the Split of every repetition swapped.
C24_GreedinessDuality ==
    (re.ok /\ matched.called) =>
        /\ ~matched.fail
        /\ ~is_match(Flipped(pattern), text).fail
        /\ matched.val = is_match(Flipped(pattern), text).val

\* a|b*? matched the text ba, and so does a|b*: the Split of the repetition
\* is the one Split of the two programs that differs.
C24_Witness ==
    /\ pattern = Str(<<"a", "|", "b", "*", "?">>)
    /\ text = Utf8(Str(<<"b", "a">>))
    /\ re.ok /\ matched.called /\ matched.val
    /\ Cardinality(SwappedSplits(re.p.insts, Flipped(pattern).p.insts)) = 1
    /\ \A i \in 1..Len(re.p.insts) :
           i \notin SwappedSplits(re.p.insts, Flipped(pattern).p.insts)
               => re.p.insts[i] = Flipped(pattern).p.insts[i]


RECURSIVE PiecesFrom(_, _, _)
PiecesFrom(r, t, sp) ==
    LET n == RegexpSplits_next(r, t, sp) IN
    IF n.fail \/ ~n.some THEN <<>>
    ELSE <<n.piece>> \o PiecesFrom(r, t, n.sp)

\* C26: once splitn(T, limit) has yielded its pieces, they are at most limit
\* and none when limit is 0; each piece before the limit-th is the piece of
\* split(T) of the same rank; and a limit-th piece is all of T after the end
\* of the match of rank limit - 1, all of T when limit is 1.
C26_SplitNPieces ==
    (iter # NoIter /\ iter.kind = "RegexpSplitsN" /\ iter.status # "active") =>
        LET limit  == iter.spn.limit
            pieces == PiecesFrom(re, text, split)
            ms     == MatchesFrom(re, text, find_iter)
        IN  /\ iter.status = "done"
            /\ Len(out) <= limit
            /\ \A i \in 1..Len(out) :
                   i < limit => i <= Len(pieces) /\ out[i] = pieces[i]
            /\ (limit >= 1 /\ Len(out) = limit) =>
                   IF limit = 1 THEN out[limit] = text
                   ELSE /\ Len(ms) >= limit - 1
                        /\ out[limit] = slice_bytes(text, ms[limit - 1][2], Len(text))


\* The matches of captures_iter from the iterator it on, until it returns
\* None or aborts.
RECURSIVE CaptureMatchesFrom(_, _, _)
CaptureMatchesFrom(r, t, it) ==
    LET n == FindCaptures_next(r, t, it) IN
    IF n.fail \/ n.item = <<>> THEN <<>>
    ELSE <<<<n.item[1], n.item[2]>>>> \o CaptureMatchesFrom(r, t, n.it)

\* The first n items of the sequence s, all of them when it has fewer.
FirstItems(s, n) == SubSeq(s, 1, Min(n, Len(s)))

\* C27: replacen(T, limit, rep) is T with the first min(limit, number of
\* matches) matches of captures_iter, all of them when limit is 0, replaced
\* by rep and everything outside them copied in order; replace is the limit
\* 1 and replace_all the limit 0; without a match the result is T.
C27_ReplacesFirstMatches ==
    (re.ok /\ replaced.called /\ replaced.rep = PlainTemplate) =>
        LET ms == CaptureMatchesFrom(re, text, captures_iter)
            n  == IF replaced.limit = 0 THEN Len(ms) ELSE Min(replaced.limit, Len(ms))
        IN  /\ ~replaced.fail
            /\ replaced.val = Rebuilt(text, FirstItems(ms, n), 0, replaced.rep)
            /\ ms = <<>> => replaced.val = text

\* The parser has just run parse_counted on the repetition that ends the
\* pattern: the '{' is the last character read before the end or the error.
CountedRead ==
    /\ parser # NoParser
    /\ \/ parser.err = "" /\ parser.chari >= Len(parser.chars)
       \/ parser.err # ""

\* parse_counted settled the repetition as the bounds min and max (None when
\* there is no max) require: accepted with min copies of the operand on the
\* stack, or rejected with BadSyntax.
SettledByLimit(min, max) ==
    IF min <= MAX_REPEAT /\ (max # None => (max <= MAX_REPEAT /\ min <= max))
    THEN parser.err = ""
    ELSE parser.err = "BadSyntax"

\* C28: a counted repetition of a valid operand is rejected with BadSyntax
\* when its min or its max exceeds MAX_REPEAT or when its max is smaller than
\* its min, and it is accepted when min <= max <= MAX_REPEAT.
C28_CountedBoundsChecked ==
    CountedRead =>
        \A e \in Operands, g \in Suffixes, n \in LimitCounts :
            /\ pattern = Exactly(e, n, g) => SettledByLimit(n, n)
            /\ pattern = AtLeast(e, n, g) => SettledByLimit(n, None)
            /\ \A m \in LimitCounts :
                   pattern = Between(e, n, m, g) => SettledByLimit(n, m)

\* a{1000,1000} was accepted: the stack holds the MAX_REPEAT copies of a.
C28_Witness ==
    /\ pattern = Between(Str(<<"a">>), MAX_REPEAT, MAX_REPEAT, <<>>)
    /\ CountedRead
    /\ parser.err = ""
    /\ Len(parser.stack) = MAX_REPEAT

\* The ranges written in the body s of a class of characters and ranges.
RECURSIVE RangesWritten(_)
RangesWritten(s) ==
    IF s = <<>> THEN <<>>
    ELSE IF Len(s) >= 3 /\ s[2] = Chr("-")
         THEN <<<<s[1], s[3]>>>> \o RangesWritten(SubSeq(s, 4, Len(s)))
         ELSE <<<<s[1], s[1]>>>> \o RangesWritten(Tail(s))

\* The pattern [body] or [^body] starts with ^; its body.
WrittenNegated(p) == p[2] = Chr("^")
WrittenBody(p) == SubSeq(p, IF WrittenNegated(p) THEN 3 ELSE 2, Len(p) - 1)

\* C29: a class made only of characters and ranges, written in any order,
\* accepts a character iff it lies in at least one of the written ranges,
\* XOR the NEGATED bit.
C29_ClassAcceptsWrittenRanges ==
    (re.ok /\ matched.called /\ pattern \in RangePatterns) =>
        LET c  == char_range_at(text, 0).ch
            rs == RangesWritten(WrittenBody(pattern))
        IN  /\ ~matched.fail
            /\ matched.val
                  = ((\E i \in 1..Len(rs) : rs[i][1] <= c /\ c <= rs[i][2])
                        # WrittenNegated(pattern))

\* C30: with NOCASE set, a class finds a text character t iff some character
\* d inside one of its ranges has uppercase(d) = uppercase(t); the result is
\* then XORed with NEGATED.
C30_ClassFoldsBothSides ==
    (re.ok /\ matched.called /\ pattern \in CasePatterns) =>
        LET t   == char_range_at(text, 0).ch
            cls == SubSeq(pattern, 5, Len(pattern))
            rs  == RangesWritten(WrittenBody(cls))
        IN  /\ ~matched.fail
            /\ matched.val
                  = ((\E i \in 1..Len(rs) : \E d \in rs[i][1]..rs[i][2] :
                          to_uppercase(d) = to_uppercase(t))
                        # WrittenNegated(cls))

\* The runs of the VM made by is_match, find, captures and the last call of
\* the iterator.
SkipRuns ==
    (IF matched.called THEN matched.runs ELSE <<>>)
        \o (IF found.called THEN found.runs ELSE <<>>)
        \o (IF caps.called THEN caps.runs ELSE <<>>)
        \o (IF iter # NoIter THEN iter.runs ELSE <<>>)

\* The program with the prefix search disabled: it holds no prefix.
WithoutPrefix(prog) == [prog EXCEPT !.prefix = <<>>]

\* C31: for every program with a non-empty prefix, every text and every start
\* offset, the VM, which jumps to the next occurrence of the prefix (or stops
\* when there is none) whenever its queue is empty and no match is recorded,
\* returns what the same VM returns with the prefix search disabled.
C31_PrefixSkipEquivalent ==
    (re.ok /\ Len(re.p.prefix) > 0) =>
        \A i \in 1..Len(SkipRuns) :
            LET r == SkipRuns[i]
                e == Nfa_run(r.which, WithoutPrefix(re.p), text, r.start, Len(text))
            IN  r.fail = e.fail /\ r.locs = e.locs

\* ab was searched in e'ab: the VM jumped over e' to the prefix ab, at the
\* offset 2, and matched there.
C31_Witness ==
    /\ pattern = Str(<<"a", "b">>)
    /\ text = Utf8(Str(<<"e'", "a", "b">>))
    /\ re.ok /\ re.p.prefix = Utf8(Str(<<"a", "b">>))
    /\ iter # NoIter /\ iter.runs # <<>>
    /\ iter.runs[1].start = 0 /\ iter.runs[1].locs = <<2, 4>>

\* The step from the execution e to the execution e2 of the task brings the
\* run closer to its end: the first half of an iteration moves ic forward,
\* the step of a thread moves the index of the inner loop forward over a
\* queue that does not grow, and the swap starts the next iteration.
VmProgress(e, e2) ==
    /\ e.phase = "top" => e2.run.nfa.ic > e.run.nfa.ic
    /\ (e.phase = "step" /\ e2.phase = "step") =>
           /\ e2.i = e.i + 1
           /\ e2.run.s.clist.size <= e.run.s.clist.size
           /\ e2.run.nfa.ic = e.run.nfa.ic
    /\ (e.phase = "step" /\ e2.phase = "top") => e2.run.nfa.ic = e.run.nfa.ic

\* C32: every VM run terminates, also on programs with cycles of
\* instructions that read nothing: each queue holds at most len(insts)
\* threads, so that an iteration steps at most len(insts) of them, ic
\* strictly increases on every iteration of the main loop and never passes
\* len(T) + 1, and a run makes at most (codepoints of T) + 1 iterations.
C32_RunTerminates ==
    [][LET e  == execs[VmTask]
           e2 == execs'[VmTask]
       IN  /\ e2.status \in {"running", "done"} =>
                  e2.iters <= Len(str_chars(text, 0)) + 1
           /\ e2.status = "running" =>
                  /\ e2.run.s.clist.size <= Len(re.p.insts)
                  /\ e2.run.s.nlist.size <= Len(re.p.insts)
                  /\ Len(e2.stepped) <= Len(re.p.insts)
                  /\ e2.run.nfa.ic <= Len(text) + 1
           /\ (e.status = "running" /\ e2.status = "running") => VmProgress(e, e2)]_vars

\* (a*)* ran on aaa from the offset 0 to its end in len(T) + 1 iterations;
\* its program has a cycle of instructions that read nothing.
C32_Witness ==
    /\ pattern = Str(<<"(", "a", "*", ")", "*">>)
    /\ text = Utf8(Str(<<"a", "a", "a">>))
    /\ execs[VmTask].status = "done"
    /\ execs[VmTask].which = "Submatches"
    /\ execs[VmTask].start = 0
    /\ execs[VmTask].iters = 4
    /\ execs[VmTask].run.res.locs = <<0, 3, 0, 3>>

\* The pcs the queue t holds: those added since the last reset.
Held(t) == {t.queue[i].pc : i \in 1..t.size}

\* The invariant of the sparse set t of a program of n instructions: no pc
\* is held twice, the size is at most n, sparse leads from every pc held to
\* its index, and contains tells the pcs held from the others.
SparseSet(t, n) ==
    /\ t.size <= n
    /\ \A i, j \in 1..t.size : t.queue[i].pc = t.queue[j].pc => i = j
    /\ \A i \in 1..t.size : t.sparse[t.queue[i].pc + 1] = i - 1
    /\ \A pc \in 0..(n - 1) : Threads_contains(t, pc) <=> pc \in Held(t)

\* A reset leaves nothing held, and the add of a pc that is not held makes
\* it held and changes nothing for the others.
SparseSetSteps(t, which, groups, n) ==
    /\ \A pc \in 0..(n - 1) : ~Threads_contains(Threads_empty(t), pc)
    /\ \A pc \in 0..(n - 1) :
           ~Threads_contains(t, pc) =>
               /\ t.size < n
               /\ \A q \in 0..(n - 1) :
                      Threads_contains(Threads_add(t, which, pc, groups, TRUE), q)
                          <=> (q = pc \/ Threads_contains(t, q))

\* C33: in every reachable state of a VM run each thread queue holds each pc
\* at most once, its size is at most len(insts), sparse[queue[i].pc] = i for
\* every i < size, and contains(pc) is true iff pc was added since the last
\* reset, whatever the arrays held initially or after a reset.
C33_SparseSetInvariant ==
    execs[VmTask].status = "running" =>
        LET s == execs[VmTask].run.s
            n == Len(re.p.insts)
        IN  /\ SparseSet(s.clist, n)
            /\ SparseSet(s.nlist, n)
            /\ SparseSetSteps(s.clist, execs[VmTask].which, s.groups, n)
            /\ SparseSetSteps(s.nlist, execs[VmTask].which, s.groups, n)

\* (a*)* runs on aa with queues that were not initialised: the current
\* queue holds threads, and sparse holds an entry below the size for a pc
\* that is not held.
C33_Witness ==
    /\ pattern = Str(<<"(", "a", "*", ")", "*">>)
    /\ execs[VmTask].status = "running"
    /\ execs[VmTask].run.s.clist.size > 1
    /\ \E pc \in 0..(Len(re.p.insts) - 1) :
           /\ execs[VmTask].run.s.clist.sparse[pc + 1] < execs[VmTask].run.s.clist.size
           /\ ~Threads_contains(execs[VmTask].run.s.clist, pc)

\* The instruction of the thread the inner loop of the execution e is at.
AtInst(e) == re.p.insts[e.run.s.clist.queue[e.i + 1].pc + 1]

\* The step from e to e2 is the step of a thread that is at a Match.
MatchStep(e, e2) ==
    /\ e.phase = "step" /\ e2.phase = "step"
    /\ e2.status = "running"
    /\ AtInst(e).op = "Match"

\* C34: the priority of the matches over time.  When a thread reaches Match
\* no thread queued behind it in the current queue is stepped in that step
\* (the queue is emptied, or the run returns when only the existence of a
\* match is asked for),
\* and the threads of the next queue are those of the threads ahead of it;
\* once a match is recorded pc 0 is never added again; a recorded match is
\* replaced only by the Match of a thread that was left, that is of one that
\* was ahead; and the main loop stops as soon as the current queue is empty
\* after a match.
C34_MatchPriority ==
    [][LET e  == execs[VmTask]
           e2 == execs'[VmTask]
           n  == Len(re.p.insts)
       IN  (e.status = "running" /\ e2.status \in {"running", "done"}) =>
               /\ MatchStep(e, e2) =>
                      /\ e2.run.s.nlist = e.run.s.nlist
                      /\ IF e.which = "Exists" THEN e2.run.s.early
                         ELSE e2.run.s.matched /\ e2.run.s.clist.size = 0
               /\ e2.status = "running" =>
                      \A k \in 1..Len(e2.stepped) :
                          re.p.insts[e2.stepped[k] + 1].op = "Match"
                              => k = Len(e2.stepped)
               /\ (e.run.s.matched /\ e2.status = "running") =>
                      /\ ~Threads_contains(e2.run.s.clist, 0)
                      /\ ~Threads_contains(e2.run.s.nlist, 0)
                      /\ e.phase = "top" => e2.run.s.clist = e.run.s.clist
                      /\ e2.run.s.groups # e.run.s.groups => MatchStep(e, e2)
               /\ (e.phase = "top" /\ e.run.s.matched /\ e.run.s.clist.size = 0) =>
                      /\ e2.status = "done"
                      /\ e2.run.res.locs = e.run.s.groups]_vars

\* (a|ab)(b?) runs on ab: the thread of the first alternative has reached
\* Match after a, the thread of the second alternative that was queued
\* behind it is dropped without a step, and the match <<0, 1>> is recorded.
C34_Witness ==
    /\ pattern = Str(<<"(", "a", "|", "a", "b", ")", "(", "b", "?", ")">>)
    /\ text = Utf8(Str(<<"a", "b">>))
    /\ execs[VmTask].status = "running"
    /\ execs[VmTask].which = "Submatches"
    /\ execs[VmTask].phase = "step"
    /\ execs[VmTask].run.s.matched
    /\ execs[VmTask].run.s.groups = <<0, 1, 0, 1, 1, 1>>
    /\ execs[VmTask].run.s.clist.size = 0
    /\ execs[VmTask].i = Len(execs[VmTask].stepped)
    /\ AtInst(execs[VmTask]).op = "OneChar"

\* The same run has ended: the match recorded first was replaced by the
\* later Match of the thread that was ahead, which read the b.
C34_WitnessReplaced ==
    /\ pattern = Str(<<"(", "a", "|", "a", "b", ")", "(", "b", "?", ")">>)
    /\ text = Utf8(Str(<<"a", "b">>))
    /\ execs[VmTask].status = "done"
    /\ execs[VmTask].which = "Submatches"
    /\ execs[VmTask].start = 0
    /\ execs[VmTask].run.res.locs = <<0, 2, 0, 1, 1, 2>>

\* The indices of the queue t2 whose threads were added since the queue
\* was t.
AddedTo(t, t2) == (t.size + 1)..t2.size

\* The call of add that filled the queue t up to t2 for the run of kind
\* which wrote its captures within bounds: groups, the capture array given
\* to it, has a slot for every Save expanded that writes one, and a thread
\* added differs from groups only in the slots of the Saves expanded; in
\* Location mode these are the slots 0 and 1, in Exists mode there is none.
WritesOfAdd(which, t, t2, groups) ==
    /\ Len(groups) = 2 * which_num_caps(which, re.p)
    /\ \A i \in AddedTo(t, t2) :
           LET th   == t2.queue[i]
               inst == re.p.insts[th.pc + 1]
           IN  /\ (inst.op = "Save"
                     /\ (which = "Submatches" \/ (which = "Location" /\ inst.slot <= 1)))
                      => inst.slot < Len(groups)
               /\ inst.op \in {"Match", "OneChar", "CharClass", "Any"} =>
                      /\ Len(th.groups) = Len(groups)
                      /\ \A k \in 1..Len(groups) :
                             th.groups[k] # groups[k] =>
                                 /\ which # "Exists"
                                 /\ which = "Location" => k <= 2
                                 /\ \E j \in AddedTo(t, t2) :
                                        /\ j < i
                                        /\ re.p.insts[t2.queue[j].pc + 1]
                                               = [op |-> "Save", slot |-> k - 1]

\* C35: add leaves the capture array it was given unchanged on return: the
\* array of the run after the add of pc 0, the array of the stepped thread
\* after the add of its successor.  Its only capture writes are those of
\* the Saves it expanded: in Submatches mode the slot of the Save, in
\* Location mode the slots 0 and 1 only, in Exists mode none, and no Save
\* indexes the capture array outside its length.
C35_AddRestoresCaptures ==
    [][LET e  == execs[VmTask]
           e2 == execs'[VmTask]
       IN  (e.status = "running" /\ e2.status = "running") =>
               /\ e.phase = "top" =>
                      /\ e2.run.s.groups = e.run.s.groups
                      /\ WritesOfAdd(e.which, e.run.s.clist, e2.run.s.clist,
                                     e.run.s.groups)
               /\ (e.phase = "step" /\ e2.phase = "step") =>
                      /\ e2.run.s.clist.queue[e.i + 1].groups
                             = e.run.s.clist.queue[e.i + 1].groups
                      /\ WritesOfAdd(e.which, e.run.s.nlist, e2.run.s.nlist,
                                     e.run.s.clist.queue[e.i + 1].groups)
                      /\ \A i \in AddedTo(e.run.s.nlist, e2.run.s.nlist) :
                         \A k \in 1..Len(e2.run.s.nlist.queue[i].groups) :
                             LET th == e2.run.s.nlist.queue[i] IN
                             (re.p.insts[th.pc + 1].op
                                     \in {"Match", "OneChar", "CharClass", "Any"}
                                /\ th.groups[k]
                                       # e.run.s.clist.queue[e.i + 1].groups[k])
                                 => th.groups[k] = e.run.nfa.ic]_vars

\* (a|ab)(b?) runs on ab in Submatches mode: the thread that has read a was
\* stepped, the add of its successor expanded the Saves of the slots 3, 4,
\* 5 and 1 and queued a thread at Match with them set, and the capture
\* array of the stepped thread holds what it held.
C35_Witness ==
    /\ pattern = Str(<<"(", "a", "|", "a", "b", ")", "(", "b", "?", ")">>)
    /\ text = Utf8(Str(<<"a", "b">>))
    /\ execs[VmTask].status = "running"
    /\ execs[VmTask].which = "Submatches"
    /\ execs[VmTask].phase = "step"
    /\ execs[VmTask].i >= 1
    /\ execs[VmTask].run.s.clist.queue[execs[VmTask].i].groups[4] = None
    /\ \E i \in 1..execs[VmTask].run.s.nlist.size :
           /\ re.p.insts[execs[VmTask].run.s.nlist.queue[i].pc + 1].op = "Match"
           /\ execs[VmTask].run.s.nlist.queue[i].groups = <<0, 1, 0, 1, 1, 1>>

\* The number of instructions of the AST ast.
RECURSIVE InstCount(_)
InstCount(ast) ==
    CASE ast.k = "Nothing" -> 0
      [] ast.k = "Capture" -> InstCount(ast.x) + 2
      [] ast.k = "Cat" -> InstCount(ast.xs[1]) + InstCount(ast.xs[2])
      [] ast.k = "Alt" -> InstCount(ast.x) + InstCount(ast.y) + 2
      [] ast.k = "Rep" /\ ast.rep = "ZeroMore" -> InstCount(ast.x) + 2
      [] ast.k = "Rep" /\ ast.rep # "ZeroMore" -> InstCount(ast.x) + 1
      [] OTHER -> 1

\* The Split of a repetition with the greediness g: its first target is the
\* entry of the body when g is greedy and the first instruction after the
\* repetition when not, its second target the other one.
SplitOf(g, body, after) ==
    IF g = "Greedy" THEN Split(body, after) ELSE Split(after, body)

\* The instructions of ast lie in insts from pc on, and every alternation
\* and repetition of it has its one Split and its Jump as C36 says.
RECURSIVE Laid(_, _, _)
Laid(insts, ast, pc) ==
    LET n == InstCount(ast) IN
    CASE ast.k = "Capture" -> Laid(insts, ast.x, pc + 1)
      [] ast.k = "Cat" ->
            /\ Laid(insts, ast.xs[1], pc)
            /\ Laid(insts, ast.xs[2], pc + InstCount(ast.xs[1]))
      [] ast.k = "Alt" ->
            LET a == pc + 1
                b == a + InstCount(ast.x) + 1
            IN  /\ insts[pc + 1] = Split(a, b)
                /\ insts[b - 1 + 1] = Jump(pc + n)
                /\ Laid(insts, ast.x, a)
                /\ Laid(insts, ast.y, b)
      [] ast.k = "Rep" /\ ast.rep = "ZeroOne" ->
            /\ insts[pc + 1] = SplitOf(ast.greed, pc + 1, pc + n)
            /\ Laid(insts, ast.x, pc + 1)
      [] ast.k = "Rep" /\ ast.rep = "ZeroMore" ->
            /\ insts[pc + 1] = SplitOf(ast.greed, pc + 1, pc + n)
            /\ insts[pc + n - 1 + 1] = Jump(pc)
            /\ Laid(insts, ast.x, pc + 1)
      [] ast.k = "Rep" /\ ast.rep = "OneMore" ->
            /\ insts[pc + n - 1 + 1] = SplitOf(ast.greed, pc, pc + n)
            /\ Laid(insts, ast.x, pc)
      [] OTHER -> TRUE

\* The alternations and repetitions of ast, and those with a Jump.
RECURSIVE Branchings(_, _)
Branchings(ast, jumping) ==
    CASE ast.k = "Capture" -> Branchings(ast.x, jumping)
      [] ast.k = "Cat" -> Branchings(ast.xs[1], jumping) + Branchings(ast.xs[2], jumping)
      [] ast.k = "Alt" -> 1 + Branchings(ast.x, jumping) + Branchings(ast.y, jumping)
      [] ast.k = "Rep" ->
            (IF jumping /\ ast.rep # "ZeroMore" THEN 0 ELSE 1)
                + Branchings(ast.x, jumping)
      [] OTHER -> 0

\* The number of instructions of insts with the opcode op.
CountOp(insts, op) == Cardinality({i \in 1..Len(insts) : insts[i].op = op})

\* C36: for every repetition and every alternation of the AST the compiler
\* emits one Split, whose first target is the entry of the body (of the
\* first alternative) when greedy and the first instruction after the
\* repetition when ungreedy, the second target being the other one; the
\* Jump of e* targets its own Split and the Jump of an alternation the
\* first instruction after its second alternative.
C36_SplitTargetsByGreediness ==
    (re # NoRegexp /\ re.ok) =>
        LET ast == parse(pattern).ret IN
        /\ Len(re.p.insts) = InstCount(ast) + 3
        /\ Laid(re.p.insts, ast, 1)
        /\ CountOp(re.p.insts, "Split") = Branchings(ast, FALSE)
        /\ CountOp(re.p.insts, "Jump") = Branchings(ast, TRUE)

\* (?:(?:a)*?)|(?:(?:a)+) was compiled: the Split of the alternation, the
\* Split of the ungreedy a*? whose first target is past its Jump, the Jump
\* back to that Split, the Jump of the alternation to the end, and the
\* Split of a+ back to its body.
C36_Witness ==
    /\ pattern = Grouped(Grouped(Str(<<"a">>)) \o Str(<<"*", "?">>))
                     \o Str(<<"|">>)
                     \o Grouped(Grouped(Str(<<"a">>)) \o Str(<<"+">>))
    /\ re.ok
    /\ SubSeq(re.p.insts, 2, 8)
           = <<Split(2, 6), Split(5, 3), OneChar(97, FLAG_EMPTY), Jump(2),
               Jump(8), OneChar(97, FLAG_EMPTY), Split(6, 8)>>

\* The word characters [0-9A-Za-z_].
WordChars ==
    (Chr("0")..Chr("9")) \cup (Chr("A")..Chr("Z")) \cup (Chr("a")..Chr("z"))
        \cup {Chr("_")}

\* The offsets of the text t where a character starts, and its end.
RECURSIVE Offsets(_, _)
Offsets(t, i) ==
    IF i >= Len(t) THEN {Len(t)}
    ELSE {i} \cup Offsets(t, char_range_at(t, i).next)

\* The character of the text t at the offset i and the one before it; None
\* where the text has none.
TextCharAt(t, i) == IF i < Len(t) THEN char_range_at(t, i).ch ELSE None
TextCharBefore(t, i) ==
    IF i = 0 THEN None
    ELSE TextCharAt(t, CHOOSE j \in Offsets(t, 0) :
                       j < i /\ \A k \in Offsets(t, 0) : ~(j < k /\ k < i))

\* Exactly one of the characters around the offset i of t is a word
\* character.
AtWordBoundary(t, i) ==
    (TextCharBefore(t, i) \in WordChars) # (TextCharAt(t, i) \in WordChars)

\* The offsets from start on where the assertion with the flags holds.
Satisfying(t, start, flags) ==
    {i \in Offsets(t, 0) :
        i >= start /\ (AtWordBoundary(t, i) # is_set(flags, FLAG_NEGATED))}

\* C37: at every position of the input an EmptyWordBoundary without NEGATED
\* is satisfied, that is the thread passes on to the next instruction, iff
\* exactly one of the previous and the current character is a word
\* character [0-9A-Za-z_], a missing character at the start or the end of
\* the text counting as none; with NEGATED iff that does not hold.  So a
\* search for \b or \B alone finds the first such position from its start.
C37_WordBoundary ==
    [][LET e  == execs[VmTask]
           e2 == execs'[VmTask]
       IN  /\ \A c \in 0..255 : is_word(c) <=> c \in WordChars
           /\ ~is_word(None)
           /\ (e.status = "running" /\ e.phase = "top" /\ e2.status = "running") =>
                  \A pc \in Held(e2.run.s.clist) :
                      re.p.insts[pc + 1].op = "EmptyWordBoundary" =>
                          ((pc + 1) \in Held(e2.run.s.clist)
                              <=> e.run.nfa.ic
                                    \in Satisfying(text, 0, re.p.insts[pc + 1].flags))
           /\ (e2.status = "done" /\ ~e2.run.res.fail /\ e2.which = "Location"
                 /\ Len(re.p.insts) = 4) =>
                  LET at == Satisfying(text, e2.start, re.p.insts[2].flags) IN
                  e2.run.res.locs =
                      IF at = {} THEN <<None, None>>
                      ELSE LET i == CHOOSE i \in at : \A j \in at : i <= j
                           IN  <<i, i>>]_vars

\* \b ran on the text -e'_ from the offset 1: the first word boundary is at
\* the offset 3, between the e' and the _.
C37_Witness ==
    /\ pattern = Str(<<"\\", "b">>)
    /\ text = Utf8(Str(<<"-", "e'", "_">>))
    /\ execs[VmTask].status = "done"
    /\ execs[VmTask].which = "Location"
    /\ execs[VmTask].start = 1
    /\ execs[VmTask].run.res.locs = <<3, 3>>

\* \B ran on the text _ from the offset 0: no position of it satisfies the
\* negated assertion.
C37_WitnessNegated ==
    /\ pattern = Str(<<"\\", "B">>)
    /\ text = Utf8(Str(<<"_">>))
    /\ execs[VmTask].status = "done"
    /\ execs[VmTask].which = "Location"
    /\ execs[VmTask].start = 0
    /\ execs[VmTask].run.res.locs = <<None, None>>

\* The capture locations a and b are the same: they agree slot by slot,
\* a slot that only the longer array has being unset.
SameLocs(a, b) ==
    \A k \in 1..Max(Len(a), Len(b)) :
        (IF k <= Len(a) THEN a[k] ELSE None) = (IF k <= Len(b) THEN b[k] ELSE None)

\* C38: the matcher generated by the regexp! macro and the dynamic VM return
\* the same capture locations for every pattern, match kind, input and
\* start offset.
C38_NativeAgreesWithDynamic ==
    (execs[VmTask].status = "done" /\ "native" \in DOMAIN execs[VmTask]) =>
        /\ execs[VmTask].native.fail = execs[VmTask].dynamic.fail
        /\ SameLocs(execs[VmTask].native.locs, execs[VmTask].dynamic.locs)

\* Every capture slot of a thread held by the queue t is unset or at most
\* the length of the text.
SlotsInText(t) ==
    \A i \in 1..t.size :
    \A k \in 1..Len(t.queue[i].groups) :
        t.queue[i].groups[k] = None \/ t.queue[i].groups[k] <= Len(text)

\* C39: in every reachable state of a VM run every capture slot held by a
\* thread of either queue is unset or at most len(T): an instruction that
\* reads a character (OneChar, CharClass, Any) queues its successor only in
\* a step in which a character was read, never past the end of the input.
C39_SlotsWithinInput ==
    [][LET e  == execs[VmTask]
           e2 == execs'[VmTask]
       IN  /\ e2.status = "running" =>
                  /\ SlotsInText(e2.run.s.clist)
                  /\ SlotsInText(e2.run.s.nlist)
           /\ (e.status = "running" /\ e.phase = "step" /\ e2.status = "running"
                 /\ e2.phase = "step"
                 /\ AtInst(e).op \in {"OneChar", "CharClass", "Any"}
                 /\ e.run.nfa.chars.prev = None) =>
                  e2.run.s.nlist = e.run.s.nlist]_vars

=============================================================================
